---- MODULE Spec2Model ----
(***************************************************************************)
(* Domain security scanner: the Scanner orchestrator (Scan, Close), its    *)
(* worker pool, its result cache and the record resolvers it calls.        *)
(*                                                                         *)
(* Go strings that the code inspects (TXT payloads) are sequences of       *)
(* tokens, so that HasPrefix, Contains, Fields, TrimPrefix and Join are    *)
(* computed, not assumed.  Query names are TLA+ strings.  Time is counted  *)
(* in minutes.                                                             *)
(***************************************************************************)
EXTENDS Integers, Sequences, FiniteSets, TLC

(***************************************************************************)
(* Bounds of the model.                                                    *)
(***************************************************************************)
MaxDomains == 2      \* longest domain list passed to one Scan call
MaxCalls   == 2      \* successive Scan calls made by one caller
MaxTime    == 4      \* last value of the clock
NumCPU     == 2      \* runtime.NumCPU() of the machine
MaxAge     == 2      \* last value of the clock of the cache package
MaxHops    == 5      \* TXT lookups counted in one SPF resolution

Callers == {1, 2}

(***************************************************************************)
(* String helpers (package strings).                                       *)
(***************************************************************************)
HasPrefix(s, prefix) ==
    /\ Len(s) >= Len(prefix)
    /\ SubSeq(s, 1, Len(prefix)) = prefix

Contains(s, tok) == \E i \in 1..Len(s) : s[i] = tok

TrimPrefix(s, prefix) ==
    IF HasPrefix(s, prefix) THEN SubSeq(s, Len(prefix) + 1, Len(s)) ELSE s

RECURSIVE TrimLeft(_, _)
TrimLeft(s, cut) ==
    IF s # <<>> /\ Head(s) = cut THEN TrimLeft(Tail(s), cut) ELSE s

RECURSIVE TrimRight(_, _)
TrimRight(s, cut) ==
    IF s # <<>> /\ s[Len(s)] = cut THEN TrimRight(SubSeq(s, 1, Len(s) - 1), cut) ELSE s

\* strings.Trim with a cutset of one character
Trim(s, cut) == TrimRight(TrimLeft(s, cut), cut)

RECURSIVE FieldsFrom(_, _, _)
FieldsFrom(s, cur, out) ==
    IF s = <<>> THEN (IF cur = <<>> THEN out ELSE Append(out, cur))
    ELSE IF Head(s) = " "
         THEN FieldsFrom(Tail(s), <<>>, IF cur = <<>> THEN out ELSE Append(out, cur))
         ELSE FieldsFrom(Tail(s), Append(cur, Head(s)), out)

\* strings.Fields: the maximal runs of non-space tokens
Fields(s) == FieldsFrom(s, <<>>, <<>>)

RECURSIVE Join(_)
Join(strs) == IF strs = <<>> THEN <<>> ELSE Head(strs) \o Join(Tail(strs))

RECURSIVE NameOf(_)
NameOf(s) == IF s = <<>> THEN "" ELSE Head(s) \o NameOf(Tail(s))

BIMIPrefix  == <<"v=BIMI1;">>
DKIMPrefix  == <<"v=DKIM1;">>
DMARCPrefix == <<"v=DMARC1;">>
SPFPrefix   == <<"v=spf1", " ">>

knownDkimSelectors ==
    <<"x", "google", "selector1", "selector2", "k1", "mandrill",
      "everlytickey1", "everlytickey2", "dkim", "mxvault">>

(***************************************************************************)
(* The DNS seen through the transport: resource records and responses.     *)
(***************************************************************************)
TXT(segs)   == [rrtype |-> "TXT",   txt |-> segs, target |-> ""]
CNAME(name) == [rrtype |-> "CNAME", txt |-> <<>>, target |-> name]
NS(host)    == [rrtype |-> "NS",    txt |-> <<>>, target |-> host]
MX(host)    == [rrtype |-> "MX",    txt |-> <<>>, target |-> host]

Reply(answer) == [err |-> FALSE, size |-> 512,  answer |-> answer]
Big(answer)   == [err |-> FALSE, size |-> 8192, answer |-> answer]
Failure       == [err |-> TRUE,  size |-> 0,    answer |-> <<>>]

\* The zone data the nameservers serve.  A name that is not listed has an
\* empty answer section (NXDOMAIN is not an exchange error).
DNSData(name, qtype) ==
    CASE name = "a.org" /\ qtype = "NS"  -> Reply(<<NS("ns1.a.org."), NS("ns2.a.org.")>>)
      [] name = "a.org" /\ qtype = "MX"  -> Reply(<<MX("mx.a.org.")>>)
      [] name = "a.org" /\ qtype = "TXT" ->
            Reply(<<TXT(<< <<"site-verification">> >>),
                    TXT(<< <<"v=spf1", " ", "redirect=", "spf.a.org">> >>)>>)
      [] name = "spf.a.org" /\ qtype = "TXT" ->
            Reply(<<TXT(<< <<"v=spf1", " ", "-all">> >>)>>)
      [] name = "_dmarc.a.org" /\ qtype = "TXT" ->
            Reply(<<TXT(<< <<"v=DMARC1;", " ">>, <<"p=reject;">> >>)>>)
      [] name = "x._domainkey.a.org" /\ qtype = "TXT" -> Big(<<>>)
      [] name = "google._domainkey.a.org" /\ qtype = "TXT" ->
            Reply(<<TXT(<< <<"v=DKIM1;", " ", "p=KEY">> >>)>>)
      [] name = "mine._domainkey.a.org" /\ qtype = "TXT" ->
            Reply(<<TXT(<< <<"v=DKIM1;", " ", "p=MINE">> >>)>>)
      [] name = "google._domainkey.sub.a.org" /\ qtype = "TXT" ->
            Reply(<<TXT(<< <<"v=DKIM1;", " ", "p=SUB">> >>)>>)
      [] name = "default._bimi.a.org" /\ qtype = "TXT" ->
            Reply(<<CNAME("bimi.a.org.")>>)
      [] name = "bimi.a.org." /\ qtype = "TXT" ->
            Reply(<<TXT(<< <<"v=BIMI1;", " ", "l=logo">> >>)>>)
      [] name = "sub.a.org" /\ qtype = "TXT" ->
            Reply(<<TXT(<< <<"v=spf1", " ", "redirect=", "down.org">> >>)>>)
      [] name = "down.org" /\ qtype = "TXT" -> Failure
      [] name = "x._domainkey.sub.a.org" /\ qtype = "TXT" -> Failure
      [] name = "default._bimi.sub.a.org" /\ qtype = "TXT" ->
            Reply(<<TXT(<< <<"v=BIMI1;", " ", "l=sub">> >>)>>)
      [] name = "sub.a.org" /\ qtype = "MX" -> Failure
      [] name = "_dmarc.sub.a.org" /\ qtype = "TXT" -> Failure
      [] name = "x.invalid" /\ qtype = "NS" -> Failure
      [] name = "y.invalid" /\ qtype = "TXT" -> Failure
      [] name = "split.org" /\ qtype = "TXT" ->
            Reply(<<TXT(<< <<"v=spf1", " ", "include:", "x.org">>, <<" ", "-all">> >>)>>)
      [] name = "_dmarc.split.org" /\ qtype = "TXT" ->
            Reply(<<TXT(<< <<"other">> >>),
                    TXT(<< <<"v=DMARC1;", " ">>, <<"p=none;">>, <<" ", "sp=none">> >>)>>)
      [] name = "default._bimi.split.org" /\ qtype = "TXT" ->
            Reply(<<TXT(<< <<"other">> >>),
                    TXT(<< <<"v=BIMI1;", " ">>, <<"l=split">> >>)>>)
      [] name = "google._domainkey.split.org" /\ qtype = "TXT" ->
            Reply(<<TXT(<< <<"v=DKIM1;", " ">>, <<"p=PART1">>, <<"PART2">> >>)>>)
      [] name = "both.org" /\ qtype = "TXT" ->
            Reply(<<TXT(<< <<"v=spf1", " ", "-all", " ", "redirect=", "spf.a.org">> >>)>>)
      [] name = "chain.org" /\ qtype = "TXT" ->
            Reply(<<TXT(<< <<"v=spf1", " ", "redirect=", "a.org">> >>)>>)
      [] name = "lost.org" /\ qtype = "TXT" ->
            Reply(<<TXT(<< <<"v=spf1", " ", "redirect=", "nowhere.org">> >>)>>)
      [] name = "flat.org" /\ qtype = "TXT" ->
            Reply(<<TXT(<< <<"v=DMARC1;", " ", "p=none">> >>)>>)
      [] name = "logo.org" /\ qtype = "TXT" ->
            Reply(<<TXT(<< <<"v=BIMI1;", " ", "l=flat">> >>)>>)
      [] name = "_dmarc.half.org" /\ qtype = "TXT" -> Failure
      [] name = "default._bimi.half.org" /\ qtype = "TXT" -> Failure
      [] name = "half.org" /\ qtype = "TXT" ->
            Reply(<<TXT(<< <<"v=BIMI1;", " ", "l=half">> >>),
                    TXT(<< <<"v=DMARC1;", " ", "p=reject">> >>)>>)
      [] name = "multi.org" /\ qtype = "TXT" ->
            Reply(<<TXT(<< <<"v=DMARC1;", " ", "p=none">> >>),
                    TXT(<< <<"v=spf1", " ", "-all">> >>)>>)
      [] name = "chain2.org" /\ qtype = "TXT" ->
            Reply(<<TXT(<< <<"v=spf1", " ", "redirect=", "chain.org">> >>)>>)
      [] name = "loop.org" /\ qtype = "TXT" ->
            Reply(<<TXT(<< <<"v=spf1", " ", "redirect=", "loop.org">> >>)>>)
      [] name = "ping.org" /\ qtype = "TXT" ->
            Reply(<<TXT(<< <<"v=spf1", " ", "redirect=", "pong.org">> >>)>>)
      [] name = "pong.org" /\ qtype = "TXT" ->
            Reply(<<TXT(<< <<"v=spf1", " ", "redirect=", "ping.org">> >>)>>)
      [] name = "into.org" /\ qtype = "TXT" ->
            Reply(<<TXT(<< <<"v=spf1", " ", "redirect=", "ping.org">> >>)>>)
      [] OTHER -> Reply(<<>>)

\* the response as the client receives it: one larger than the advertised
\* EDNS0 buffer comes back truncated
Received(r, buf) ==
    [err |-> r.err, truncated |-> (~r.err /\ r.size > buf), answer |-> r.answer]

\* One query/response exchange.
Exchange(name, qtype, buf) == Received(DNSData(name, qtype), buf)

(***************************************************************************)
(* Record resolvers.  Each returns its value, its error and the number of  *)
(* exchanges it performed.                                                 *)
(***************************************************************************)
EDNSMax == 4096

\* what getDNSAnswers returns for the response in, the n-th of the call
Answers(in, n) ==
    IF in.err THEN [answer |-> <<>>, err |-> TRUE, n |-> n]
    ELSE [answer |-> in.answer, err |-> FALSE, n |-> n]

\* getDNSAnswers after its first exchange in1: a truncated response is asked
\* again, once, with the largest buffer
AnswersAfter(in1, domain, qtype, dnsBuffer) ==
    IF ~in1.err /\ in1.truncated /\ dnsBuffer <= EDNSMax
    THEN Answers(Exchange(domain, qtype, EDNSMax), 2)
    ELSE Answers(in1, 1)

getDNSAnswers(domain, qtype, dnsBuffer) ==
    AnswersAfter(Exchange(domain, qtype, dnsBuffer), domain, qtype, dnsBuffer)

RECURSIVE TXTOfAnswers(_, _, _)
RECURSIVE TXTOfAlias(_, _, _, _)
RECURSIVE getTypeTXT(_, _)

\* the loop of getTypeTXT over the answers, records and exchanges so far in acc
TXTOfAnswers(answers, dnsBuffer, acc) ==
    IF answers = <<>> THEN acc
    ELSE IF Head(answers).rrtype = "CNAME"
    THEN TXTOfAlias(getTypeTXT(Head(answers).target, dnsBuffer), answers, dnsBuffer, acc)
    ELSE IF Head(answers).rrtype = "TXT"
    THEN TXTOfAnswers(Tail(answers), dnsBuffer,
             [acc EXCEPT !.records = acc.records \o Head(answers).txt])
    ELSE TXTOfAnswers(Tail(answers), dnsBuffer, acc)

\* the CNAME case of the loop, rec being the TXT records of the alias target
TXTOfAlias(rec, answers, dnsBuffer, acc) ==
    IF rec.err THEN [records |-> <<>>, err |-> TRUE, n |-> acc.n + rec.n]
    ELSE TXTOfAnswers(Tail(answers), dnsBuffer,
             [records |-> acc.records \o rec.records,
              err |-> FALSE, n |-> acc.n + rec.n])

\* getTypeTXT after its call a of getDNSAnswers
TXTOf(a, dnsBuffer) ==
    IF a.err THEN [records |-> <<>>, err |-> TRUE, n |-> a.n]
    ELSE TXTOfAnswers(a.answer, dnsBuffer,
                      [records |-> <<>>, err |-> FALSE, n |-> a.n])

getTypeTXT(domain, dnsBuffer) == TXTOf(getDNSAnswers(domain, "TXT", dnsBuffer), dnsBuffer)

\* index of the first string of txtRecords that has the prefix, 0 if none
FirstWithPrefix(txtRecords, prefix) ==
    IF \E i \in 1..Len(txtRecords) : HasPrefix(txtRecords[i], prefix)
    THEN CHOOSE i \in 1..Len(txtRecords) :
            /\ HasPrefix(txtRecords[i], prefix)
            /\ \A j \in 1..(i - 1) : ~HasPrefix(txtRecords[j], prefix)
    ELSE 0

\* the loop shared by getTypeBIMI, getTypeDKIM and getTypeDMARC: the names
\* are tried in order, an exchange error ends the search with no record
RECURSIVE FirstMatch(_, _, _, _)
RECURSIVE MatchAt(_, _, _, _, _, _)

\* one turn of the loop, t being the TXT records of the name tried and index
\* the first of them that has the prefix
MatchAt(t, index, dnames, prefix, dnsBuffer, n) ==
    IF t.err THEN [val |-> <<>>, err |-> FALSE, n |-> n + t.n]
    ELSE IF index # 0
    THEN [val |-> Join(SubSeq(t.records, index, Len(t.records))),
          err |-> FALSE, n |-> n + t.n]
    ELSE FirstMatch(Tail(dnames), prefix, dnsBuffer, n + t.n)

MatchOf(t, dnames, prefix, dnsBuffer, n) ==
    MatchAt(t, FirstWithPrefix(t.records, prefix), dnames, prefix, dnsBuffer, n)

FirstMatch(dnames, prefix, dnsBuffer, n) ==
    IF dnames = <<>> THEN [val |-> <<>>, err |-> FALSE, n |-> n]
    ELSE MatchOf(getTypeTXT(Head(dnames), dnsBuffer), dnames, prefix, dnsBuffer, n)

getTypeBIMI(domain, dnsBuffer) ==
    FirstMatch(<<"default._bimi." \o domain, domain>>, BIMIPrefix, dnsBuffer, 0)

\* the names getTypeDKIM asks: each selector under _domainkey
DKIMNames(selectors, domain) ==
    [i \in 1..Len(selectors) |-> selectors[i] \o "._domainkey." \o domain]

getTypeDKIMKnownFirst(domain, dkimSelectors, dnsBuffer) ==
    FirstMatch(DKIMNames(knownDkimSelectors \o dkimSelectors, domain),
               DKIMPrefix, dnsBuffer, 0)

getTypeDKIM(domain, dkimSelectors, dnsBuffer) ==
    FirstMatch(DKIMNames(dkimSelectors \o knownDkimSelectors, domain),
               DKIMPrefix, dnsBuffer, 0)

getTypeDMARCDomainFirst(domain, dnsBuffer) ==
    FirstMatch(<<domain, "_dmarc." \o domain>>, DMARCPrefix, dnsBuffer, 0)

getTypeDMARC(domain, dnsBuffer) ==
    FirstMatch(<<"_dmarc." \o domain, domain>>, DMARCPrefix, dnsBuffer, 0)

\* index of the first field that contains redirect=
RedirectField(parts) ==
    CHOOSE i \in 1..Len(parts) :
        /\ Contains(parts[i], "redirect=")
        /\ \A j \in 1..(i - 1) : ~Contains(parts[j], "redirect=")

RedirectOfUntrimmed(parts) == NameOf(parts[RedirectField(parts)])

RedirectOf(parts) == NameOf(TrimPrefix(parts[RedirectField(parts)], <<"redirect=">>))

\* the redirect target named by the first field of txt that contains redirect=
RedirectDomain(txt) == RedirectOf(Fields(txt))

\* the exchanges made before a redirect count with those made after it
After(rec, n) == [rec EXCEPT !.n = rec.n + n]

RECURSIVE getTypeSPF(_, _)
RECURSIVE SPFAt(_, _, _)

\* getTypeSPF after its call t of getTypeTXT, index being the SPF record
SPFAt(t, index, dnsBuffer) ==
    IF t.err THEN [val |-> <<>>, err |-> TRUE, n |-> t.n]
    ELSE IF index = 0 THEN [val |-> <<>>, err |-> FALSE, n |-> t.n]
    ELSE IF ~Contains(t.records[index], "redirect=")
    THEN [val |-> t.records[index], err |-> FALSE, n |-> t.n]
    ELSE After(getTypeSPF(RedirectDomain(t.records[index]), dnsBuffer), t.n)

SPFOf(t, dnsBuffer) == SPFAt(t, FirstWithPrefix(t.records, SPFPrefix), dnsBuffer)

getTypeSPF(domain, dnsBuffer) == SPFOf(getTypeTXT(domain, dnsBuffer), dnsBuffer)

\* the answers of the asked type, following aliases
RECURSIVE RecordsOfAnswers(_, _, _, _)
RECURSIVE RecordsOfAlias(_, _, _, _, _)
RECURSIVE getDNSRecords(_, _, _)
RecordsOfAnswers(answers, qtype, dnsBuffer, acc) ==
    IF answers = <<>> THEN acc
    ELSE IF Head(answers).rrtype = "CNAME"
    THEN RecordsOfAlias(getDNSRecords(Head(answers).target, qtype, dnsBuffer),
                        answers, qtype, dnsBuffer, acc)
    ELSE IF Head(answers).rrtype = qtype
    THEN RecordsOfAnswers(Tail(answers), qtype, dnsBuffer,
             [acc EXCEPT !.records = Append(acc.records, Head(answers).target)])
    ELSE RecordsOfAnswers(Tail(answers), qtype, dnsBuffer, acc)

RecordsOfAlias(rec, answers, qtype, dnsBuffer, acc) ==
    IF rec.err THEN [records |-> <<>>, err |-> TRUE, n |-> acc.n + rec.n]
    ELSE RecordsOfAnswers(Tail(answers), qtype, dnsBuffer,
             [records |-> acc.records \o rec.records,
              err |-> FALSE, n |-> acc.n + rec.n])

RecordsOf(a, qtype, dnsBuffer) ==
    IF a.err THEN [records |-> <<>>, err |-> TRUE, n |-> a.n]
    ELSE RecordsOfAnswers(a.answer, qtype, dnsBuffer,
                          [records |-> <<>>, err |-> FALSE, n |-> a.n])

getDNSRecords(domain, qtype, dnsBuffer) ==
    RecordsOf(getDNSAnswers(domain, qtype, dnsBuffer), qtype, dnsBuffer)


(***************************************************************************)
(* The Scanner.                                                            *)
(***************************************************************************)
CacheFillTTL     == 3       \* minutes an entry filled by Scan stays valid
DefaultDNSBuffer == 4096

Domains        == {"a.org", "sub.a.org", "x.invalid", "y.invalid"}
DomainArgs     == Domains \cup {""}
DomainLists    == UNION {[1..n -> DomainArgs] : n \in 0..MaxDomains}
CacheDurations == {0, 1}     \* values given to WithCacheDuration
Quotas         == {0, 1}     \* values given to WithConcurrentScans
Lookups        == {"BIMI", "DKIM", "DMARC", "MX", "SPF"}

\* zone files, as the owner name (fully qualified) and type of each record
Zones ==
    { <<>>,
      << [name |-> <<"a", ".", "org", ".">>, rrtype |-> "NS"],
         [name |-> <<"org", ".">>, rrtype |-> "A"] >>,
      << [name |-> <<"a", ".", "org", ".">>, rrtype |-> "NS"],
         [name |-> <<"org", ".">>, rrtype |-> "A"],
         [name |-> <<"sub", ".", "a", ".", "org", ".">>, rrtype |-> "A"] >>,
      << [name |-> <<"a", ".", "org", ".">>, rrtype |-> "NS"],
         [name |-> <<"org", ".">>, rrtype |-> "MX"],
         [name |-> <<"sub", ".", "a", ".", "org", ".">>, rrtype |-> "A"],
         [name |-> <<"a", ".", "org", ".">>, rrtype |-> "MX"] >>,
      << [name |-> <<"a", ".", "org", ".">>, rrtype |-> "A"],
         [name |-> <<"a", ".", "org", ".">>, rrtype |-> "MX"] >>,
      << [name |-> <<".">>, rrtype |-> "SOA"],
         [name |-> <<"sub", ".", "a", ".", "org", ".">>, rrtype |-> "NS"],
         [name |-> <<"x", ".", "invalid", ".">>, rrtype |-> "TXT"] >> }

VARIABLES
    cacheDuration,   \* Scanner.cacheDuration
    dkimSelectors,   \* Scanner.dkimSelectors
    dnsBuffer,       \* Scanner.dnsBuffer
    poolSize,        \* Scanner.poolSize
    nameservers,     \* Scanner.nameservers
    lastNameserverIndex, \* Scanner.lastNameserverIndex
    scanner,         \* "new" while New applies its options, then "live", or "nil"
    probe,           \* the last option applied or resolver called, and its outcome
    picked,          \* the servers getNS returned, latest last
    optQuota,        \* the quota the scanner was constructed with
    poolCap,         \* capacity of the worker pool
    running,         \* workers of the pool that run a task
    closed,          \* the pool has been released
    cache,           \* domain -> [value, exp] of the cache items
    now,             \* the clock
    pc,              \* where each caller is in Scan
    domains,         \* the arguments of each caller's Scan call
    idx,             \* the next domain the submitting loop submits
    wg,              \* the WaitGroup of the call
    results,         \* the results list of the call
    ret,             \* what the call returned
    calls,           \* number of Scan calls each caller has begun
    late,            \* the call began after Close
    stats,           \* exchanges and cache operations done for the call
    prev,            \* what the caller's previous call returned
    tasks,           \* the tasks submitted to the pool and not finished
    load,            \* the workload of the run: calls per caller, list length, duration
    handler,         \* the front end that drives the scanner and the input it works on
    cacheEnabled     \* Scanner.cacheEnabled of the single-domain scanner

vars == <<cacheDuration, dkimSelectors, dnsBuffer, poolSize, nameservers,
          lastNameserverIndex, scanner, probe, picked, optQuota, poolCap,
          running, closed, cache, now, pc, domains, idx, wg, results, ret,
          calls, late, stats, prev, tasks, load, handler, cacheEnabled>>

settings == <<cacheDuration, dkimSelectors, dnsBuffer, poolSize, nameservers,
              lastNameserverIndex, scanner, probe, picked, optQuota, poolCap, load,
              cacheEnabled>>
config  == <<settings, handler>>
callers == <<pc, domains, idx, wg, results, ret, calls, late, prev>>

NewResult(domain) ==
    [Domain |-> domain, Error |-> "", BIMI |-> <<>>, DKIM |-> <<>>,
     DMARC |-> <<>>, MX |-> <<>>, NS |-> <<>>, SPF |-> <<>>]

InvalidResult(domain) == [NewResult(domain) EXCEPT !.Error = "invalid domain name"]

NoStats == [sent |-> 0, gets |-> 0, sets |-> 0]
NoProbe == [op |-> "none"]
NoHandler == [kind |-> "none"]

\* a uint32 as its two 16-bit halves
Half == 65536
Zero32 == [hi |-> 0, lo |-> 0]

\* the nameservers of a scanner built without WithNameservers, as host:port
DefaultNameservers ==
    << <<"8.8.8.8", ":", "53">>, <<"8.8.4.4", ":", "53">>, <<"1.1.1.1", ":", "53">> >>
NoPrev  == [valid |-> FALSE, domains |-> <<>>, results |-> <<>>, exp |-> 0]

WithConcurrentScansPlusOne(quota) == IF quota <= 0 THEN NumCPU ELSE quota + 1

WithConcurrentScans(quota) == IF quota <= 0 THEN NumCPU ELSE quota

\* New: the scanner after construction with WithCacheDuration(duration) and
\* WithConcurrentScans(quota)
New(duration, quota) ==
    /\ cacheDuration = duration
    /\ dkimSelectors = <<>>
    /\ dnsBuffer = DefaultDNSBuffer
    /\ nameservers = DefaultNameservers
    /\ lastNameserverIndex = Zero32
    /\ scanner = "live"
    /\ probe = NoProbe
    /\ picked = <<>>
    /\ optQuota = quota
    /\ poolSize = WithConcurrentScans(quota)
    /\ poolCap = poolSize
    /\ running = 0
    /\ closed = FALSE
    /\ cache = <<>>

Only(c, n) == [d \in Callers |-> IF d = c THEN n ELSE 0]

\* The workloads explored: two callers that each scan one domain at the same
\* time; one caller that scans a batch while the scanner may be closed; one
\* caller that repeats its scans while the cache entries age.
Concurrent ==
    [calls |-> [c \in Callers |-> 1], len |-> 1, until |-> 0, close |-> FALSE]
Batch  == [calls |-> Only(1, 1), len |-> MaxDomains, until |-> 0, close |-> TRUE]
Repeat == [calls |-> Only(1, MaxCalls), len |-> 1, until |-> MaxTime, close |-> FALSE]

Init ==
    /\ \/ load = Concurrent /\ \E q \in Quotas : New(0, q)
       \/ load = Batch /\ \E q \in Quotas : New(0, q)
       \/ load = Repeat /\ \E d \in CacheDurations : New(d, 0)
    /\ now = 0
    /\ pc = [c \in Callers |-> "idle"]
    /\ domains = [c \in Callers |-> <<>>]
    /\ idx = [c \in Callers |-> 1]
    /\ wg = [c \in Callers |-> 0]
    /\ results = [c \in Callers |-> <<>>]
    /\ ret = [c \in Callers |-> [results |-> <<>>, err |-> "nil"]]
    /\ calls = [c \in Callers |-> 0]
    /\ late = [c \in Callers |-> FALSE]
    /\ stats = [c \in Callers |-> NoStats]
    /\ prev = [c \in Callers |-> NoPrev]
    /\ tasks = <<>>
    /\ handler = NoHandler
    /\ cacheEnabled = FALSE

(***************************************************************************)
(* The cache (go-cache): Get misses on an expired item, Set stamps the     *)
(* item with its own expiry.                                               *)
(***************************************************************************)
CacheHitNever(key) == FALSE

CacheHit(key) == key \in DOMAIN cache /\ ~(now > cache[key].exp)

CacheSet(key, value, d) ==
    [k \in DOMAIN cache \cup {key} |->
        IF k = key THEN [value |-> value, exp |-> now + d] ELSE cache[k]]

(***************************************************************************)
(* Scan: the caller's side.                                                *)
(***************************************************************************)
ScanErrorEmptyAllowed(ds) ==
    IF \E i \in 1..Len(ds) : ds[i] = "" THEN "empty domain" ELSE "nil"

ScanErrorFirstOnly(ds) ==
    IF Len(ds) = 0 THEN "no domains to scan"
    ELSE IF ds[1] = "" THEN "empty domain"
    ELSE "nil"

ScanError(ds) ==
    IF \E i \in 1..Len(ds) : ds[i] = "" THEN "empty domain"
    ELSE IF Len(ds) = 0 THEN "no domains to scan"
    ELSE "nil"

\* the end of the caller's previous call: what it returned and until when
\* the cache keeps serving every domain of it
Remember(c) ==
    IF pc[c] = "returned" /\ ret[c].err = "nil"
    THEN [valid   |-> \A i \in 1..Len(domains[c]) : domains[c][i] \in DOMAIN cache,
          domains |-> domains[c],
          results |-> ret[c].results,
          exp     |-> IF \A i \in 1..Len(domains[c]) : domains[c][i] \in DOMAIN cache
                      THEN CHOOSE e \in {cache[domains[c][i]].exp : i \in 1..Len(domains[c])} :
                              \A i \in 1..Len(domains[c]) : e <= cache[domains[c][i]].exp
                      ELSE 0]
    ELSE NoPrev

\* Scan up to the submitting loop: the arguments are checked first
Starting(c, ds) ==
    /\ pc[c] \in {"idle", "returned"}
    /\ calls[c] < load.calls[c]
    /\ Len(ds) <= load.len
    /\ calls' = [calls EXCEPT ![c] = @ + 1]
    /\ domains' = [domains EXCEPT ![c] = ds]
    /\ late' = [late EXCEPT ![c] = closed]
    /\ prev' = [prev EXCEPT ![c] = Remember(c)]
    /\ idx' = [idx EXCEPT ![c] = 1]
    /\ wg' = [wg EXCEPT ![c] = 0]
    /\ results' = [results EXCEPT ![c] = <<>>]
    /\ stats' = [stats EXCEPT ![c] = NoStats]
    /\ IF ScanError(ds) # "nil"
       THEN /\ pc' = [pc EXCEPT ![c] = "returned"]
            /\ ret' = [ret EXCEPT ![c] = [results |-> <<>>, err |-> ScanError(ds)]]
       ELSE /\ pc' = [pc EXCEPT ![c] = "submit"]
            /\ ret' = [ret EXCEPT ![c] = [results |-> <<>>, err |-> "nil"]]
    /\ UNCHANGED <<running, closed, cache, now, tasks>>

ScanStart(c, ds) == Starting(c, ds) /\ UNCHANGED config

Scan(c) == \E ds \in DomainLists : ScanStart(c, ds)

\* the names ScanZone hands to Scan
RECURSIVE ZoneDomainsKeepingNS(_)
ZoneDomainsKeepingNS(zone) ==
    IF zone = <<>> THEN <<>>
    ELSE IF ~Contains(Trim(Head(zone).name, "."), ".")
    THEN ZoneDomainsKeepingNS(Tail(zone))
    ELSE <<NameOf(Trim(Head(zone).name, "."))>> \o ZoneDomainsKeepingNS(Tail(zone))

RECURSIVE ZoneDomains(_)
ZoneDomains(zone) ==
    IF zone = <<>> THEN <<>>
    ELSE IF Head(zone).rrtype = "NS" THEN ZoneDomains(Tail(zone))
    ELSE IF ~Contains(Trim(Head(zone).name, "."), ".") THEN ZoneDomains(Tail(zone))
    ELSE <<NameOf(Trim(Head(zone).name, "."))>> \o ZoneDomains(Tail(zone))

ScanZone(c) == \E zone \in Zones : ScanStart(c, ZoneDomains(zone))

NewTask(domain) ==
    [dom |-> domain, pc |-> "get", result |-> NewResult(domain),
     done |-> {}]

SubmitUnchecked(c) ==
    /\ pc[c] = "submit"
    /\ closed \/ running < poolCap
    /\ wg' = [wg EXCEPT ![c] = @ + 1]
    /\ running' = IF closed THEN running ELSE running + 1
    /\ tasks' = IF closed THEN tasks
                ELSE [t \in DOMAIN tasks \cup {<<c, calls[c], idx[c]>>} |->
                         IF t = <<c, calls[c], idx[c]>>
                         THEN NewTask(domains[c][idx[c]]) ELSE tasks[t]]
    /\ idx' = [idx EXCEPT ![c] = @ + 1]
    /\ pc' = [pc EXCEPT ![c] = IF idx[c] = Len(domains[c]) THEN "wait" ELSE "submit"]
    /\ UNCHANGED <<config, closed, cache, now, domains, results, ret, calls, late,
                   stats, prev>>

\* one turn of the submitting loop: wg.Add(1) and pool.Submit, which blocks
\* while every worker is busy and fails once the pool is released
Submit(c) ==
    /\ pc[c] = "submit"
    /\ IF closed
       THEN /\ wg' = [wg EXCEPT ![c] = @ + 1]
            /\ pc' = [pc EXCEPT ![c] = "returned"]
            /\ ret' = [ret EXCEPT ![c] = [results |-> <<>>, err |-> "pool closed"]]
            /\ UNCHANGED <<idx, tasks, running>>
       ELSE /\ running < poolCap
            /\ wg' = [wg EXCEPT ![c] = @ + 1]
            /\ running' = running + 1
            /\ tasks' = [t \in DOMAIN tasks \cup {<<c, calls[c], idx[c]>>} |->
                            IF t = <<c, calls[c], idx[c]>>
                            THEN NewTask(domains[c][idx[c]]) ELSE tasks[t]]
            /\ idx' = [idx EXCEPT ![c] = @ + 1]
            /\ pc' = [pc EXCEPT ![c] = IF idx[c] = Len(domains[c]) THEN "wait" ELSE "submit"]
            /\ UNCHANGED ret
    /\ UNCHANGED <<config, closed, cache, now, domains, results, calls, late, stats, prev>>

ScanReturnEarly(c) ==
    /\ pc[c] = "wait"
    /\ pc' = [pc EXCEPT ![c] = "returned"]
    /\ ret' = [ret EXCEPT ![c] = [results |-> results[c], err |-> "nil"]]
    /\ UNCHANGED <<config, running, closed, cache, now, domains, idx, wg, results,
                   calls, late, stats, prev, tasks>>

\* wg.Wait() and the return of the results
ScanReturn(c) ==
    /\ pc[c] = "wait"
    /\ wg[c] = 0
    /\ pc' = [pc EXCEPT ![c] = "returned"]
    /\ ret' = [ret EXCEPT ![c] = [results |-> results[c], err |-> "nil"]]
    /\ UNCHANGED <<config, running, closed, cache, now, domains, idx, wg, results,
                   calls, late, stats, prev, tasks>>

Close ==
    /\ load.close
    /\ closed' = TRUE
    /\ cache' = <<>>
    /\ UNCHANGED <<config, running, now, callers, stats, tasks>>

Tick ==
    /\ now < load.until
    /\ now' = now + 1
    /\ UNCHANGED <<config, running, closed, cache, callers, stats, tasks>>

(***************************************************************************)
(* Scan: the task run by a pool worker for one domain.  A task is named by *)
(* its caller, the caller's call and the position of its domain.           *)
(***************************************************************************)
Current(t) == t[2] = calls[t[1]]      \* the call of the task is the caller's latest

Drop(t) == [u \in DOMAIN tasks \ {t} |-> tasks[u]]

Bump(t, field, n) ==
    IF Current(t) THEN [stats EXCEPT ![t[1]][field] = @ + n] ELSE stats

AppendResultAborting(t, r) ==
    IF ~Current(t) THEN results
    ELSE IF r.Error # "" THEN [results EXCEPT ![t[1]] = <<r>>]
    ELSE [results EXCEPT ![t[1]] = Append(@, r)]

\* results = append(results, r) under the mutex of the call
AppendResult(t, r) ==
    IF Current(t) THEN [results EXCEPT ![t[1]] = Append(@, r)] ELSE results

\* the deferred wg.Done() and the worker going back to the pool
Done(t) ==
    /\ wg' = IF Current(t) THEN [wg EXCEPT ![t[1]] = @ - 1] ELSE wg
    /\ running' = running - 1
    /\ tasks' = Drop(t)

\* cache.Get: on a hit the cached Result is appended and the task returns
TaskGet(t) ==
    /\ tasks[t].pc = "get"
    /\ stats' = Bump(t, "gets", 1)
    /\ IF CacheHit(tasks[t].dom)
       THEN /\ results' = AppendResult(t, cache[tasks[t].dom].value)
            /\ Done(t)
       ELSE /\ tasks' = [tasks EXCEPT ![t].pc = "ns"]
            /\ UNCHANGED <<results, wg, running>>
    /\ UNCHANGED <<config, closed, cache, now, pc, domains, idx, ret, calls, late, prev>>

NoRecordsOnError(err, n) == err

\* err != nil || len(records) == 0
NoRecords(err, n) == err \/ n = 0

\* the NS lookup that checks the domain name
TaskNS(t) ==
    /\ tasks[t].pc = "ns"
    /\ \E r \in {getDNSRecords(tasks[t].dom, "NS", dnsBuffer)} :
           /\ tasks' = [tasks EXCEPT ![t].result.NS = r.records,
                                     ![t].pc = IF NoRecords(r.err, Len(r.records))
                                               THEN "txt" ELSE "fan"]
           /\ stats' = Bump(t, "sent", r.n)
    /\ UNCHANGED <<config, running, closed, cache, now, callers>>

\* the TXT lookup made when the NS lookup found nothing
TaskTXT(t) ==
    /\ tasks[t].pc = "txt"
    /\ \E r \in {getDNSAnswers(tasks[t].dom, "TXT", dnsBuffer)} :
           /\ tasks' = IF NoRecords(r.err, Len(r.answer))
                       THEN [tasks EXCEPT ![t].result = InvalidResult(tasks[t].dom),
                                          ![t].pc = "append"]
                       ELSE [tasks EXCEPT ![t].pc = "fan"]
           /\ stats' = Bump(t, "sent", r.n)
    /\ UNCHANGED <<config, running, closed, cache, now, callers>>

\* a list of records as the value of a lookup
AsValue(r) == [val |-> r.records, err |-> r.err, n |-> r.n]

Resolve(kind, domain) ==
    CASE kind = "BIMI"  -> getTypeBIMI(domain, dnsBuffer)
      [] kind = "DKIM"  -> getTypeDKIM(domain, dkimSelectors, dnsBuffer)
      [] kind = "DMARC" -> getTypeDMARC(domain, dnsBuffer)
      [] kind = "SPF"   -> getTypeSPF(domain, dnsBuffer)
      [] kind = "MX"    -> AsValue(getDNSRecords(domain, "MX", dnsBuffer))

AssignResetting(result, kind, r) ==
    IF r.err THEN NewResult(result.Domain) ELSE [result EXCEPT ![kind] = r.val]

AssignFailing(result, kind, r) ==
    [result EXCEPT ![kind] = r.val,
                   !.Error = IF r.err THEN "lookup failed" ELSE @]

\* result.X, err = lookup: the value goes to its field of the result, the
\* error to a variable that nobody reads
Assign(result, kind, r) == [result EXCEPT ![kind] = r.val]

\* the variables the goroutine of a lookup assigns: its field of the result
\* and the err of the task, declared once for the five of them
Writes(kind) == {"result." \o kind, "err"}

\* the lookup goroutines of the task that have not ended: the five are
\* started together and nothing orders one before another
Unfinished(t) == IF tasks[t].pc = "fan" THEN Lookups \ tasks[t].done ELSE {}

TaskLookupNoJoin(t, kind) ==
    /\ tasks[t].pc = "fan"
    /\ kind \notin tasks[t].done
    /\ \E r \in {Resolve(kind, tasks[t].dom)} :
           /\ tasks' = [tasks EXCEPT ![t].result = Assign(@, kind, r),
                                     ![t].done = @ \cup {kind},
                                     ![t].pc = "append"]
           /\ stats' = Bump(t, "sent", r.n)
    /\ UNCHANGED <<config, running, closed, cache, now, callers>>

\* one of the five lookup goroutines
TaskLookup(t, kind) ==
    /\ tasks[t].pc = "fan"
    /\ kind \notin tasks[t].done
    /\ \E r \in {Resolve(kind, tasks[t].dom)} :
           /\ tasks' = [tasks EXCEPT ![t].result = Assign(@, kind, r),
                                     ![t].done = @ \cup {kind},
                                     ![t].pc = IF tasks[t].done \cup {kind} = Lookups
                                               THEN "append" ELSE "fan"]
           /\ stats' = Bump(t, "sent", r.n)
    /\ UNCHANGED <<config, running, closed, cache, now, callers>>

\* scanWg.Wait() is over, or the domain is invalid: the result is appended
TaskAppend(t) ==
    /\ tasks[t].pc = "append"
    /\ results' = AppendResult(t, tasks[t].result)
    /\ tasks' = [tasks EXCEPT ![t].pc = "exit"]
    /\ UNCHANGED <<config, running, closed, cache, now, pc, domains, idx, wg, ret,
                   calls, late, stats, prev>>

TaskExitSkippingInvalid(t) ==
    /\ tasks[t].pc = "exit"
    /\ cache' = IF tasks[t].result.Error = ""
                THEN CacheSet(tasks[t].dom, tasks[t].result, CacheFillTTL) ELSE cache
    /\ stats' = Bump(t, "sets", 1)
    /\ Done(t)
    /\ UNCHANGED <<config, closed, now, pc, domains, idx, results, ret, calls, late, prev>>

\* the deferred calls of a task that missed the cache: the cache is filled,
\* then wg.Done()
TaskExit(t) ==
    /\ tasks[t].pc = "exit"
    /\ cache' = CacheSet(tasks[t].dom, tasks[t].result, CacheFillTTL)
    /\ stats' = Bump(t, "sets", 1)
    /\ Done(t)
    /\ UNCHANGED <<config, closed, now, pc, domains, idx, results, ret, calls, late, prev>>

Next ==
    \/ \E c \in Callers : Scan(c)
    \/ \E c \in Callers : ScanZone(c)
    \/ \E c \in Callers : Submit(c)
    \/ \E c \in Callers : ScanReturn(c)
    \/ Close
    \/ Tick
    \/ \E t \in DOMAIN tasks : TaskGet(t)
    \/ \E t \in DOMAIN tasks : TaskNS(t)
    \/ \E t \in DOMAIN tasks : TaskTXT(t)
    \/ \E t \in DOMAIN tasks, kind \in Lookups : TaskLookup(t, kind)
    \/ \E t \in DOMAIN tasks : TaskAppend(t)
    \/ \E t \in DOMAIN tasks : TaskExit(t)

Spec == Init /\ [][Next]_vars

(***************************************************************************)
(* Properties.                                                             *)
(***************************************************************************)
Count(seq, x) == Cardinality({i \in 1..Len(seq) : seq[i] = x})

\* the two sequences hold the same elements the same number of times
SameBag(s1, s2) ==
    /\ Len(s1) = Len(s2)
    /\ \A i \in 1..Len(s1) : Count(s1, s1[i]) = Count(s2, s1[i])

DomainsOf(rs) == [i \in 1..Len(rs) |-> rs[i].Domain]

OfCall(c) == {t \in DOMAIN tasks : t[1] = c /\ t[2] = calls[c]}

Returned(c) == pc[c] = "returned" /\ calls[c] > 0

ReturnedNil(c) == Returned(c) /\ ret[c].err = "nil"

\* what the DNS data answers to the two lookups that check a domain name
NSFound(d) ==
    /\ ~DNSData(d, "NS").err
    /\ \E i \in 1..Len(DNSData(d, "NS").answer) : DNSData(d, "NS").answer[i].rrtype = "NS"

TXTFound(d) == ~DNSData(d, "TXT").err /\ Len(DNSData(d, "TXT").answer) > 0

EmptyFields(r) ==
    /\ r.BIMI = <<>> /\ r.DKIM = <<>> /\ r.DMARC = <<>> /\ r.SPF = <<>>
    /\ r.MX = <<>> /\ r.NS = <<>>

\* C1: a domain whose NS lookup and whose fallback TXT lookup both fail or
\* find nothing gets the Result "invalid domain name" with every record field
\* empty, and none of its five record lookups is made.
C1_InvalidDomain ==
    /\ \A c \in Callers : \A i \in 1..Len(results[c]) :
          LET r == results[c][i]
          IN  (~NSFound(r.Domain) /\ ~TXTFound(r.Domain))
                  => r.Error = "invalid domain name" /\ EmptyFields(r)
    /\ \A t \in DOMAIN tasks :
          (~NSFound(tasks[t].dom) /\ ~TXTFound(tasks[t].dom))
              => tasks[t].pc # "fan" /\ tasks[t].done = {}

C1_Witness ==
    \E c \in Callers : ReturnedNil(c) /\ \E i \in 1..Len(ret[c].results) :
        /\ ret[c].results[i].Error = "invalid domain name"
        /\ stats[c].sets > 0

\* C2: a domain whose NS lookup or whose fallback TXT lookup finds a record
\* gets a Result with an empty Error, whatever the five record lookups did.
C2_NoErrorWhenResolvable ==
    \A c \in Callers : \A i \in 1..Len(results[c]) :
        LET r == results[c][i]
        IN  (NSFound(r.Domain) \/ TXTFound(r.Domain)) => r.Error = ""

C2_Witness ==
    \E c \in Callers : ReturnedNil(c) /\ \E i \in 1..Len(ret[c].results) :
        /\ ret[c].results[i].Error = ""
        /\ ~NSFound(ret[c].results[i].Domain)
        /\ DNSData(ret[c].results[i].Domain, "MX").err
        /\ stats[c].sets > 0

\* C3: when Scan returns its results, every task of the call has finished
\* and the results are one per domain, for the same domains the same number
\* of times, in any order.
C3_OneResultPerDomain ==
    \A c \in Callers : ReturnedNil(c) =>
        /\ OfCall(c) = {}
        /\ Len(ret[c].results) = Len(domains[c])
        /\ SameBag(DomainsOf(ret[c].results), domains[c])

C3_Witness ==
    \E c \in Callers :
        /\ ReturnedNil(c)
        /\ Len(ret[c].results) = 2
        /\ domains[c][1] # domains[c][2]
        /\ ret[c].results[1].Domain = domains[c][2]

\* the Result of a scan of the domain alone
ScanAlone(d) ==
    IF ~NSFound(d) /\ ~TXTFound(d) THEN InvalidResult(d)
    ELSE [Domain |-> d, Error |-> "",
          BIMI   |-> getTypeBIMI(d, dnsBuffer).val,
          DKIM   |-> getTypeDKIM(d, dkimSelectors, dnsBuffer).val,
          DMARC  |-> getTypeDMARC(d, dnsBuffer).val,
          MX     |-> getDNSRecords(d, "MX", dnsBuffer).records,
          NS     |-> getDNSRecords(d, "NS", dnsBuffer).records,
          SPF    |-> getTypeSPF(d, dnsBuffer).val]

\* C4: an invalid domain or a failed lookup in a batch leaves the error of
\* Scan nil and every domain of the batch with the Result it gets when it is
\* scanned alone.
C4_FailuresStayLocal ==
    \A c \in Callers : Returned(c) =>
        /\ (~closed /\ Len(domains[c]) > 0 /\ (\A i \in 1..Len(domains[c]) : domains[c][i] # ""))
              => ret[c].err = "nil"
        /\ ret[c].err = "nil" =>
              \A i \in 1..Len(domains[c]) : \E j \in 1..Len(ret[c].results) :
                  ret[c].results[j] = ScanAlone(domains[c][i])

C4_Witness ==
    \E c \in Callers :
        /\ ReturnedNil(c)
        /\ Len(ret[c].results) = 2
        /\ ret[c].results[2].Error = "invalid domain name"
        /\ ret[c].results[1].Error = ""
        /\ ret[c].results[1].SPF # <<>>

\* C5: never more tasks execute than the quota the scanner was built with
\* (the number of CPUs for quota 0), over all callers; while that many
\* execute, no caller can submit a further domain.
C5_ConcurrencyBound ==
    LET Q == IF optQuota = 0 THEN NumCPU ELSE optQuota
    IN  /\ Cardinality(DOMAIN tasks) <= Q
        /\ (Cardinality(DOMAIN tasks) = Q /\ ~closed)
              => \A c \in Callers : ~ENABLED Submit(c)

C5_Witness ==
    \E c \in Callers :
        /\ pc[c] = "submit"
        /\ ~closed
        /\ Cardinality(DOMAIN tasks) = IF optQuota = 0 THEN NumCPU ELSE optQuota
        /\ \E t \in DOMAIN tasks : t[1] # c

StoredAt(key) == cache[key].exp - CacheFillTTL

\* C7: an entry older than the configured cache duration is treated as
\* absent: no task takes from the cache a Result that was stored longer ago
\* than cacheDuration.
C7_ExpiresAfterCacheDuration ==
    [][\A t \in DOMAIN tasks :
          (cacheDuration > 0 /\ tasks[t].pc = "get" /\ t \notin DOMAIN tasks')
              => now - StoredAt(tasks[t].dom) <= cacheDuration]_vars

\* C8: with cache duration 0 nothing is ever stored in the cache and every
\* Scan resolves its domains through the DNS.
C8_ZeroDurationDisablesCache ==
    cacheDuration = 0 =>
        /\ cache = <<>>
        /\ \A c \in Callers : stats[c].sets = 0
        /\ \A c \in Callers : (ReturnedNil(c) /\ ~closed) => stats[c].sent > 0

\* C9: Scan of no domain, or of a list that holds an empty string, returns an
\* error and no results; it submits no task, sends no DNS query and does not
\* touch the cache.
C9_BadArgumentsFailFast ==
    \A c \in Callers :
        (calls[c] > 0 /\ (Len(domains[c]) = 0 \/ \E i \in 1..Len(domains[c]) : domains[c][i] = ""))
            => /\ pc[c] = "returned"
               /\ ret[c].err # "nil"
               /\ ret[c].results = <<>>
               /\ idx[c] = 1
               /\ OfCall(c) = {}
               /\ stats[c] = NoStats

C9_Witness ==
    \E c \in Callers :
        /\ Returned(c)
        /\ Len(domains[c]) = 2
        /\ domains[c][1] = "a.org"
        /\ domains[c][2] = ""
        /\ ret[c].err = "empty domain"

\* a Scan or ScanZone call that began after Close fails without a result, a
\* task or a DNS query
LateCallsFail ==
    \A c \in Callers : late[c] =>
        /\ pc[c] \in {"submit", "returned"}
        /\ pc[c] = "returned" => (ret[c].err # "nil" /\ ret[c].results = <<>>)
        /\ OfCall(c) = {}
        /\ stats[c] = NoStats

\* C10: after Close every Scan and ScanZone call returns an error and no
\* results and sends no DNS query, and the scanner stays closed.
C10_ClosedForGood == [](LateCallsFail) /\ [][closed => closed']_vars

C10_Witness ==
    \E c \in Callers :
        /\ late[c]
        /\ Returned(c)
        /\ Len(domains[c]) > 0
        /\ ret[c].err = "pool closed"

(***************************************************************************)
(* Lookup failures.                                                        *)
(***************************************************************************)
Validated(d) == NSFound(d) \/ TXTFound(d)

\* C11: a validated domain whose MX exchange fails gets a Result with a
\* non-empty Error.
C11_MXErrorSetsError ==
    \A c \in Callers : \A i \in 1..Len(results[c]) :
        (/\ Validated(results[c][i].Domain)
         /\ getDNSRecords(results[c][i].Domain, "MX", dnsBuffer).err)
            => results[c][i].Error # ""

\* an exchange fails while the names are tried in order for the prefix
RECURSIVE SearchFails(_, _, _)
SearchFails(dnames, prefix, buf) ==
    IF dnames = <<>> THEN FALSE
    ELSE IF getTypeTXT(Head(dnames), buf).err THEN TRUE
    ELSE IF FirstWithPrefix(getTypeTXT(Head(dnames), buf).records, prefix) # 0 THEN FALSE
    ELSE SearchFails(Tail(dnames), prefix, buf)

SoftLookups == {"BIMI", "DKIM", "DMARC", "SPF"}

\* an exchange of the lookup of that kind fails for the domain
LookupFails(kind, d) ==
    CASE kind = "BIMI"  -> SearchFails(<<"default._bimi." \o d, d>>, BIMIPrefix, dnsBuffer)
      [] kind = "DKIM"  -> SearchFails(DKIMNames(dkimSelectors \o knownDkimSelectors, d),
                                       DKIMPrefix, dnsBuffer)
      [] kind = "DMARC" -> SearchFails(<<"_dmarc." \o d, d>>, DMARCPrefix, dnsBuffer)
      [] kind = "SPF"   -> getTypeSPF(d, dnsBuffer).err

\* C12: when an exchange of the BIMI, DKIM, DMARC or SPF lookup of a
\* validated domain fails, that field of the Result is empty, Error is
\* empty, and every other record field holds what its own lookup finds.
C12_SoftFailureIsAbsence ==
    \A c \in Callers : \A i \in 1..Len(results[c]) : \A kind \in SoftLookups :
        (/\ Validated(results[c][i].Domain)
         /\ LookupFails(kind, results[c][i].Domain))
            => /\ results[c][i][kind] = <<>>
               /\ results[c][i].Error = ""
               /\ results[c][i].NS =
                      getDNSRecords(results[c][i].Domain, "NS", dnsBuffer).records
               /\ \A other \in Lookups \ {kind} :
                      results[c][i][other] = Resolve(other, results[c][i].Domain).val

C12_Witness ==
    \E c \in Callers : ReturnedNil(c) /\ \E i \in 1..Len(ret[c].results) :
        /\ stats[c].sets > 0
        /\ LookupFails("DMARC", ret[c].results[i].Domain)
        /\ LookupFails("DKIM", ret[c].results[i].Domain)
        /\ LookupFails("SPF", ret[c].results[i].Domain)
        /\ ret[c].results[i].BIMI # <<>>
        /\ ret[c].results[i].SPF = <<>>

\* the Results held by the cache
Cached == {cache[k].value : k \in DOMAIN cache}

\* the Results the callers hold: appended so far and returned
Held == UNION {{results[c][i] : i \in 1..Len(results[c])} \cup
               {ret[c].results[i] : i \in 1..Len(ret[c].results)} : c \in Callers}

\* C13: every Result returned by Scan or stored in the cache that has a
\* non-empty Error has every record field empty.
C13_ErrorMeansNoRecords ==
    \A r \in Held \cup Cached : r.Error # "" => EmptyFields(r)

C13_Witness ==
    /\ \E r \in Cached : r.Error # ""
    /\ \E r \in Cached : r.Error = "" /\ ~EmptyFields(r)
    /\ \E c \in Callers : ReturnedNil(c) /\ \E i \in 1..Len(ret[c].results) :
           ret[c].results[i].Error # ""

(***************************************************************************)
(* Options: New applies its options in order to a fresh Scanner and gives  *)
(* up at the first error; OverwriteOption applies one to a live Scanner.   *)
(***************************************************************************)
MaxOptions     == 2      \* options applied to one scanner
MaxSelectorLen == 63     \* longest DKIM selector

\* the variables no option touches
scanning == <<running, closed, cache, now, callers, stats, tasks, load,
              lastNameserverIndex, picked, handler, cacheEnabled>>

NoLoad == [calls |-> [c \in Callers |-> 0], len |-> 0, until |-> 0, close |-> FALSE]

\* no call has been made
AtRest ==
    /\ running = 0 /\ closed = FALSE /\ cache = <<>> /\ now = 0
    /\ pc = [c \in Callers |-> "idle"]
    /\ domains = [c \in Callers |-> <<>>]
    /\ idx = [c \in Callers |-> 1]
    /\ wg = [c \in Callers |-> 0]
    /\ results = [c \in Callers |-> <<>>]
    /\ ret = [c \in Callers |-> [results |-> <<>>, err |-> "nil"]]
    /\ calls = [c \in Callers |-> 0]
    /\ late = [c \in Callers |-> FALSE]
    /\ stats = [c \in Callers |-> NoStats]
    /\ prev = [c \in Callers |-> NoPrev]
    /\ tasks = <<>>
    /\ picked = <<>>

Idle == AtRest /\ cacheEnabled = FALSE

\* nobody scans
Parked ==
    /\ Idle
    /\ load = NoLoad
    /\ handler = NoHandler

\* the Scanner literal of New, before the options are applied
InitOptions ==
    /\ cacheDuration = 0
    /\ dkimSelectors = <<>>
    /\ dnsBuffer = DefaultDNSBuffer
    /\ nameservers = DefaultNameservers
    /\ poolSize = NumCPU
    /\ optQuota = 0
    /\ poolCap = 0
    /\ scanner = "new"
    /\ probe = NoProbe
    /\ lastNameserverIndex = Zero32
    /\ Parked

\* number of options applied so far
Applied == IF probe.op = "none" THEN 0 ELSE probe.n

\* the bookkeeping shared by the options: the call is recorded, and New
\* returns no scanner when one of its options fails
Applying(op, arg, err) ==
    /\ scanner \in {"new", "live"}
    /\ Applied < MaxOptions
    /\ probe' = [op |-> op, arg |-> arg, err |-> err, during |-> scanner,
                 n |-> Applied + 1]
    /\ scanner' = IF err # "nil" /\ scanner = "new" THEN "nil" ELSE scanner
    /\ UNCHANGED <<poolCap, scanning>>

\* OverwriteOption(nil)
ApplyNil ==
    /\ scanner = "live"
    /\ Applying("nil", <<>>, "invalid option")
    /\ UNCHANGED <<cacheDuration, dkimSelectors, dnsBuffer, nameservers, poolSize,
                   optQuota>>

WithCacheDuration(duration) == [err |-> "nil", cacheDuration |-> duration]

ApplyCacheDuration ==
    \E duration \in CacheDurations : \E out \in {WithCacheDuration(duration)} :
        /\ Applying("WithCacheDuration", duration, out.err)
        /\ cacheDuration' = out.cacheDuration
        /\ UNCHANGED <<dkimSelectors, dnsBuffer, nameservers, poolSize, optQuota>>

ApplyConcurrentScansResizing ==
    \E quota \in Quotas :
        /\ scanner \in {"new", "live"}
        /\ Applied < MaxOptions
        /\ probe' = [op |-> "WithConcurrentScans", arg |-> quota, err |-> "nil",
                     during |-> scanner, n |-> Applied + 1]
        /\ poolSize' = WithConcurrentScans(quota)
        /\ poolCap' = WithConcurrentScans(quota)
        /\ optQuota' = IF scanner = "new" THEN quota ELSE optQuota
        /\ UNCHANGED <<scanner, scanning, cacheDuration, dkimSelectors, dnsBuffer,
                       nameservers>>

\* WithConcurrentScans sets the field; the pool is made from it by New
ApplyConcurrentScans ==
    \E quota \in Quotas :
        /\ Applying("WithConcurrentScans", quota, "nil")
        /\ poolSize' = WithConcurrentScans(quota)
        /\ optQuota' = IF scanner = "new" THEN quota ELSE optQuota
        /\ UNCHANGED <<cacheDuration, dkimSelectors, dnsBuffer, nameservers>>

\* the end of New: the cache and the pool are created
NewEnd ==
    /\ scanner = "new"
    /\ scanner' = "live"
    /\ poolCap' = poolSize
    /\ UNCHANGED <<cacheDuration, dkimSelectors, dnsBuffer, poolSize, nameservers,
                   probe, optQuota, scanning>>

(***************************************************************************)
(* WithDNSBuffer.                                                          *)
(***************************************************************************)
Buffers == {256, 2048, 4095, 4096, 4097, 5000, 65535}    \* uint16 arguments

WithDNSBufferRejecting(bufferSize) ==
    IF bufferSize > EDNSMax
    THEN [err |-> "buffer size should not be larger than 4096", dnsBuffer |-> dnsBuffer]
    ELSE [err |-> "nil", dnsBuffer |-> bufferSize]

\* a size above 4096 is logged and taken
WithDNSBuffer(bufferSize) == [err |-> "nil", dnsBuffer |-> bufferSize]

ApplyDNSBuffer ==
    \E b \in Buffers : \E out \in {WithDNSBuffer(b)} :
        /\ Applying("WithDNSBuffer", b, out.err)
        /\ dnsBuffer' = out.dnsBuffer
        /\ UNCHANGED <<dkimSelectors, nameservers, cacheDuration, poolSize, optQuota>>

(***************************************************************************)
(* WithDKIMSelectors.  A selector is the sequence of its characters.       *)
(***************************************************************************)
Lower == {"a", "b", "c", "d", "e", "f", "g", "h", "i", "j", "k", "l", "m",
          "n", "o", "p", "q", "r", "s", "t", "u", "v", "w", "x", "y", "z"}
Upper == {"A", "B", "C", "D", "E", "F", "G", "H", "I", "J", "K", "L", "M",
          "N", "O", "P", "Q", "R", "S", "T", "U", "V", "W", "X", "Y", "Z"}
Digit == {"0", "1", "2", "3", "4", "5", "6", "7", "8", "9"}

Chars(n) == [i \in 1..n |-> "a"]

Selectors ==
    { <<>>, <<"s", "1">>, <<"s", "1", ".", "_", "G">>, <<"-">>, <<"s", "1", ".">>,
      <<".", "s", "1">>, <<"s", "_">>, <<"_", "s">>, <<"s", "1", "@">>, <<"s", " ", "1">>,
      Chars(MaxSelectorLen), Chars(MaxSelectorLen + 1), <<"_">> }

SelectorLists ==
    {<<>>} \cup {<<sel>> : sel \in Selectors}
           \cup {<<(<<"s", "1">>), sel>> : sel \in Selectors}
           \cup {<<sel, (<<"s", "1">>)>> : sel \in {<<"-">>, <<"s", "_">>}}

validateDKIMSelectorNoEnd(selector) ==
    IF Len(selector) = 0 THEN "DKIM selector is empty"
    ELSE IF Len(selector) > MaxSelectorLen THEN "DKIM selector length can't exceed 63"
    ELSE IF selector[1] = "." \/ selector[1] = "_"
    THEN "DKIM selector should not start with"
    ELSE IF \E i \in 1..Len(selector) :
               ~(selector[i] \in Lower \cup Digit \cup Upper \cup {"-", ".", "_"})
    THEN "DKIM selector has invalid character"
    ELSE "nil"

validateDKIMSelector(selector) ==
    IF Len(selector) = 0 THEN "DKIM selector is empty"
    ELSE IF Len(selector) > MaxSelectorLen THEN "DKIM selector length can't exceed 63"
    ELSE IF selector[1] = "." \/ selector[1] = "_"
    THEN "DKIM selector should not start with"
    ELSE IF selector[Len(selector)] = "." \/ selector[Len(selector)] = "_"
    THEN "DKIM selector should not end with"
    ELSE IF \E i \in 1..Len(selector) :
               ~(selector[i] \in Lower \cup Digit \cup Upper \cup {"-", ".", "_"})
    THEN "DKIM selector has invalid character"
    ELSE "nil"

\* the selectors as the strings the resolvers put in query names
Names(selectors) == [i \in 1..Len(selectors) |-> NameOf(selectors[i])]

WithDKIMSelectors(selectors) ==
    IF Len(selectors) = 0
    THEN [err |-> "no DKIM selectors provided", dkimSelectors |-> dkimSelectors]
    ELSE IF \E i \in 1..Len(selectors) : validateDKIMSelector(selectors[i]) # "nil"
    THEN [err |-> "invalid DKIM selector", dkimSelectors |-> dkimSelectors]
    ELSE [err |-> "nil", dkimSelectors |-> Names(selectors)]

ApplyDKIMSelectors ==
    \E selectors \in SelectorLists : \E out \in {WithDKIMSelectors(selectors)} :
        /\ Applying("WithDKIMSelectors", selectors, out.err)
        /\ dkimSelectors' = out.dkimSelectors
        /\ UNCHANGED <<dnsBuffer, nameservers, cacheDuration, poolSize, optQuota>>

(***************************************************************************)
(* WithNameservers.  An address is the sequence of its parts; the parts    *)
(* "[", "]" and ":" are the delimiters net.SplitHostPort looks for.        *)
(***************************************************************************)
IPv4s == {"8.8.8.8", "9.9.9.9"}
IPv6s == {"2001:4860:4860::8888", "2001:4860:4860:0:0:0:0:8888"}

\* netip.ParseAddr: a bare address, no bracket and no port
ParseAddr(s) ==
    IF Len(s) = 1 /\ s[1] \in IPv4s \cup IPv6s
    THEN [err |-> FALSE, addr |-> s[1]]
    ELSE [err |-> TRUE, addr |-> ""]

Is6(addr) == addr \in IPv6s

\* netip.Addr.String: the canonical text of the address
AddrString(addr) ==
    IF addr = "2001:4860:4860:0:0:0:0:8888" THEN "2001:4860:4860::8888" ELSE addr

\* the part is a host without a colon of its own
Plain(part) == part \notin IPv6s \cup {"[", "]", ":"}

\* net.SplitHostPort: the port may be empty, a host with colons needs brackets
SplitHostPort(s) ==
    CASE Len(s) = 3 /\ Plain(s[1]) /\ s[2] = ":" /\ Plain(s[3]) ->
            [err |-> FALSE, host |-> <<s[1]>>, port |-> s[3]]
      [] Len(s) = 2 /\ Plain(s[1]) /\ s[2] = ":" ->
            [err |-> FALSE, host |-> <<s[1]>>, port |-> ""]
      [] Len(s) = 5 /\ s[1] = "[" /\ s[3] = "]" /\ s[4] = ":" /\ Plain(s[5]) ->
            [err |-> FALSE, host |-> <<s[2]>>, port |-> s[5]]
      [] Len(s) = 4 /\ s[1] = "[" /\ s[3] = "]" /\ s[4] = ":" ->
            [err |-> FALSE, host |-> <<s[2]>>, port |-> ""]
      [] OTHER -> [err |-> TRUE, host |-> <<>>, port |-> ""]

\* fmt.Sprintf("[%s]:%v") for an IPv6 address, "%s:%v" otherwise
HostPort(addr, port) ==
    (IF Is6(addr) THEN <<"[", AddrString(addr), "]", ":">> ELSE <<AddrString(addr), ":">>)
        \o (IF port = "" THEN <<>> ELSE <<port>>)

\* the entry had no bare address: it may hold a port
WithPort(split) ==
    IF split.err \/ ParseAddr(split.host).err
    THEN [err |-> TRUE, value |-> <<>>]
    ELSE [err |-> FALSE, value |-> HostPort(ParseAddr(split.host).addr, split.port)]

\* one turn of the loop that puts the entries in the host:port format
Entry(s) ==
    IF ParseAddr(s).err THEN WithPort(SplitHostPort(s))
    ELSE [err |-> FALSE, value |-> HostPort(ParseAddr(s).addr, "53")]

Formatted(list) ==
    IF \E i \in 1..Len(list) : Entry(list[i]).err
    THEN [err |-> "invalid IP address", nameservers |-> nameservers]
    ELSE [err |-> "nil", nameservers |-> [i \in 1..Len(list) |-> Entry(list[i]).value]]

\* /etc/resolv.conf as dns.ClientConfigFromFile reads it: missing, or the
\* addresses of its nameserver lines
NoFile == [exists |-> FALSE, servers |-> <<>>]
ResolvConfs ==
    {NoFile, [exists |-> TRUE, servers |-> <<>>],
     [exists |-> TRUE, servers |-> << <<"9.9.9.9">> >>]}

NameserverLists ==
    { <<>>,
      << <<"8.8.8.8">> >>,
      << <<"8.8.8.8", ":", "53">> >>,
      << <<"2001:4860:4860::8888">> >>,
      << <<"[", "2001:4860:4860::8888", "]", ":", "53">> >>,
      << <<"2001:4860:4860:0:0:0:0:8888">> >>,
      << <<"2001:4860:4860::8888", ":", "53">> >>,
      << <<"invalid_nameserver">> >>,
      << <<"dns.google", ":", "53">> >>,
      << <<"8.8.8.8", ":">> >>,
      << <<"[", "8.8.8.8", "]", ":", "5353">> >>,
      << <<"9.9.9.9">>, <<"invalid_nameserver">> >>,
      << <<"9.9.9.9">>, <<"2001:4860:4860::8888">> >> }

WithNameservers(servers, resolv) ==
    IF Len(servers) = 0
    THEN IF ~resolv.exists THEN [err |-> "nil", nameservers |-> DefaultNameservers]
         ELSE Formatted(resolv.servers)
    ELSE Formatted(servers)

ApplyNameservers ==
    \E servers \in NameserverLists, resolv \in ResolvConfs :
      \E out \in {WithNameservers(servers, resolv)} :
        /\ Applying("WithNameservers", <<servers, resolv>>, out.err)
        /\ nameservers' = out.nameservers
        /\ UNCHANGED <<dkimSelectors, dnsBuffer, cacheDuration, poolSize, optQuota>>

NextOptions ==
    \/ ApplyDNSBuffer
    \/ ApplyDKIMSelectors
    \/ ApplyNameservers
    \/ ApplyCacheDuration
    \/ ApplyConcurrentScans
    \/ ApplyNil
    \/ NewEnd

SpecOptions == InitOptions /\ [][NextOptions]_vars

\* C14: an option WithDNSBuffer with a size above 4096 fails, and New
\* returns no scanner.
C14_LargeBufferRejected ==
    (probe.op = "WithDNSBuffer" /\ probe.arg > EDNSMax)
        => probe.err # "nil" /\ scanner # "live"

\* C15: WithDNSBuffer(b) succeeds for every 16-bit b and leaves dnsBuffer
\* equal to b; New goes on to return the scanner.
C15_AnyBufferAccepted ==
    probe.op = "WithDNSBuffer"
        => /\ probe.arg \in 0..65535
           /\ probe.err = "nil"
           /\ dnsBuffer = probe.arg
           /\ scanner # "nil"
           /\ scanner = "new" => ENABLED NewEnd

C15_Witness ==
    /\ probe.op = "WithDNSBuffer"
    /\ probe.during = "new"
    /\ probe.arg = 5000
    /\ scanner = "live"
    /\ dnsBuffer = 5000

\* the entry reads host:port or [host]:port with a port that is not empty
IsHostPort(e) ==
    \/ Len(e) = 3 /\ e[2] = ":" /\ e[3] # ""
    \/ Len(e) = 5 /\ e[1] = "[" /\ e[3] = "]" /\ e[4] = ":" /\ e[5] # ""

\* C18: the nameserver pool of a constructed scanner is not empty and each
\* of its entries is host:port with a port that is not empty.
C18_PoolWellFormed ==
    scanner = "live"
        => /\ Len(nameservers) > 0
           /\ \A i \in 1..Len(nameservers) : IsHostPort(nameservers[i])

\* the selector as the rule of the selectors reads: 1 to 63 characters, each
\* a letter, a digit, '-', '.' or '_', the first and the last neither '.'
\* nor '_'
WellFormedSelector(sel) ==
    /\ Len(sel) \in 1..63
    /\ \A i \in 1..Len(sel) : sel[i] \in Lower \cup Upper \cup Digit \cup {"-", ".", "_"}
    /\ sel[1] \notin {".", "_"}
    /\ sel[Len(sel)] \notin {".", "_"}

SelectorsKept ==
    probe.op = "WithDKIMSelectors"
        => /\ probe.err = "nil" <=>
                (/\ Len(probe.arg) >= 1
                 /\ \A i \in 1..Len(probe.arg) : WellFormedSelector(probe.arg[i]))
           /\ probe.err = "nil" =>
                (/\ Len(dkimSelectors) = Len(probe.arg)
                 /\ \A i \in 1..Len(probe.arg) : dkimSelectors[i] = NameOf(probe.arg[i]))
           /\ (probe.err # "nil" /\ probe.during = "new") => scanner = "nil"

\* C19: WithDKIMSelectors succeeds exactly for a list of at least one
\* selector, all well formed; then the scanner's selectors are the given ones
\* in the given order; when it fails the scanner's selectors do not change.
C19_SelectorsValidated ==
    /\ [](SelectorsKept)
    /\ [][(probe' # probe /\ probe'.op = "WithDKIMSelectors" /\ probe'.err # "nil")
             => dkimSelectors' = dkimSelectors]_vars

C19_Witness ==
    /\ probe.op = "WithDKIMSelectors"
    /\ probe.err = "nil"
    /\ probe.n = 2
    /\ dkimSelectors = <<"s1", "s1._G">>

(***************************************************************************)
(* getNS: the nameserver of the next exchange.                             *)
(***************************************************************************)
MaxPicks == 6      \* getNS calls in a row

\* atomic.AddUint32(&x, 1): the sum wraps around at 2^32
AddOne(x) ==
    IF x.lo + 1 = Half
    THEN [hi |-> (x.hi + 1) % Half, lo |-> 0]
    ELSE [hi |-> x.hi, lo |-> x.lo + 1]

\* int(x) % n for n > 0, int being wider than 32 bits
Mod(x, n) == ((x.hi % n) * (Half % n) + x.lo) % n

\* the cursor k calls before it wraps around
Before(k) == [hi |-> Half - 1, lo |-> Half - k]

\* a scanner built with the default options
Live ==
    /\ cacheDuration = 0
    /\ poolSize = NumCPU
    /\ optQuota = 0
    /\ poolCap = NumCPU
    /\ scanner = "live"
    /\ probe = NoProbe

Pools ==
    { << <<"8.8.8.8", ":", "53">> >>,
      << <<"8.8.8.8", ":", "53">>, <<"8.8.4.4", ":", "53">> >>,
      DefaultNameservers,
      << <<"8.8.8.8", ":", "53">>, <<"8.8.4.4", ":", "53">>, <<"1.1.1.1", ":", "53">>,
         <<"9.9.9.9", ":", "53">> >> }

\* a scanner that has made any number of exchanges
InitNS ==
    /\ Live
    /\ dkimSelectors = <<>>
    /\ dnsBuffer = DefaultDNSBuffer
    /\ nameservers \in Pools
    /\ lastNameserverIndex \in {Zero32} \cup {Before(k) : k \in 1..MaxPicks}
    /\ Parked

getNS ==
    /\ scanner = "live"
    /\ Len(picked) < MaxPicks
    /\ lastNameserverIndex' = AddOne(lastNameserverIndex)
    /\ picked' = Append(picked,
                        nameservers[Mod(AddOne(lastNameserverIndex), Len(nameservers)) + 1])
    /\ UNCHANGED <<cacheDuration, dkimSelectors, dnsBuffer, poolSize, nameservers,
                   scanner, probe, optQuota, poolCap, load, running, closed, cache,
                   now, callers, stats, tasks, handler, cacheEnabled>>

NextNS == getNS

SpecNS == InitNS /\ [][NextNS]_vars

\* C17: among any K getNS calls in a row, K being the size of the pool, no
\* server is returned twice, whatever the value of the cursor.
C17_RoundRobin ==
    \A i \in 1..(Len(picked) - Len(nameservers) + 1) :
        Cardinality({picked[j] : j \in i..(i + Len(nameservers) - 1)}) = Len(nameservers)

(***************************************************************************)
(* The resolvers called on a live scanner.                                 *)
(***************************************************************************)
CallerSelectors == {<<>>, <<"mine">>, <<"other">>, <<"other", "mine">>}

QueryNames ==
    Domains \cup {"x._domainkey.a.org", "google._domainkey.a.org", "_dmarc.a.org",
                  "default._bimi.a.org", "down.org", "nowhere.org"}

\* the domains the resolvers are asked about
ResolveDomains ==
    Domains \cup {"split.org", "both.org", "chain.org", "lost.org", "flat.org",
                  "logo.org", "half.org", "nowhere.org", "multi.org"}

InitResolve ==
    /\ Live
    /\ dnsBuffer \in Buffers
    /\ dkimSelectors \in CallerSelectors
    /\ nameservers = DefaultNameservers
    /\ lastNameserverIndex = Zero32
    /\ Parked

Called(op, arg, out) ==
    /\ scanner = "live"
    /\ probe' = [op |-> op, arg |-> arg, out |-> out]
    /\ UNCHANGED <<cacheDuration, dkimSelectors, dnsBuffer, poolSize, nameservers,
                   lastNameserverIndex, scanner, picked, optQuota, poolCap, load,
                   running, closed, cache, now, callers, stats, tasks, handler,
                   cacheEnabled>>

CallGetDNSAnswers ==
    \E name \in QueryNames, qtype \in {"NS", "MX", "TXT"} :
        Called("getDNSAnswers", <<name, qtype>>, getDNSAnswers(name, qtype, dnsBuffer))

CallGetTypeDKIM ==
    \E domain \in ResolveDomains :
        Called("getTypeDKIM", domain, getTypeDKIM(domain, dkimSelectors, dnsBuffer))

CallGetTypeBIMI ==
    \E domain \in ResolveDomains :
        Called("getTypeBIMI", domain, getTypeBIMI(domain, dnsBuffer))

CallGetTypeDMARC ==
    \E domain \in ResolveDomains :
        Called("getTypeDMARC", domain, getTypeDMARC(domain, dnsBuffer))

CallGetTypeSPF ==
    \E domain \in ResolveDomains :
        Called("getTypeSPF", domain, getTypeSPF(domain, dnsBuffer))

NextResolve ==
    \/ CallGetDNSAnswers
    \/ CallGetTypeDKIM
    \/ CallGetTypeBIMI
    \/ CallGetTypeDMARC
    \/ CallGetTypeSPF

SpecResolve == InitResolve /\ [][NextResolve]_vars

\* C16: getDNSAnswers makes a second exchange exactly when the first
\* response is truncated and the configured buffer is below 4096, and never
\* a third.
C16_RetryOnlyBelowMax ==
    probe.op = "getDNSAnswers"
        => /\ probe.out.n \in {1, 2}
           /\ probe.out.n = 2 <=>
                (/\ ~DNSData(probe.arg[1], probe.arg[2]).err
                 /\ DNSData(probe.arg[1], probe.arg[2]).size > dnsBuffer
                 /\ dnsBuffer < 4096)

\* the names getTypeDKIM may ask for the domain, in the order of the rule:
\* the caller's selectors, then the built-in ones
Candidates(d) ==
    [i \in 1..(Len(dkimSelectors) + 10) |->
        (IF i <= Len(dkimSelectors) THEN dkimSelectors[i]
         ELSE <<"x", "google", "selector1", "selector2", "k1", "mandrill",
                "everlytickey1", "everlytickey2", "dkim", "mxvault">>[i - Len(dkimSelectors)])
            \o "._domainkey." \o d]

\* the TXT answer of the name holds a string with the DKIM prefix
HasDKIM(name) ==
    /\ ~getTypeTXT(name, dnsBuffer).err
    /\ FirstWithPrefix(getTypeTXT(name, dnsBuffer).records, DKIMPrefix) # 0

\* the first of the names that satisfies P, 0 if none does
FirstOf(names, P(_)) ==
    IF \E i \in 1..Len(names) : P(names[i])
    THEN CHOOSE i \in 1..Len(names) : P(names[i]) /\ \A j \in 1..(i - 1) : ~P(names[j])
    ELSE 0

TXTFails(name) == getTypeTXT(name, dnsBuffer).err

\* the DKIM record found at the name
DKIMAt(name) ==
    Join(SubSeq(getTypeTXT(name, dnsBuffer).records,
                FirstWithPrefix(getTypeTXT(name, dnsBuffer).records, DKIMPrefix),
                Len(getTypeTXT(name, dnsBuffer).records)))

\* the exchanges made for the first k names
RECURSIVE ExchangesFor(_, _)
ExchangesFor(names, k) ==
    IF k = 0 THEN 0 ELSE getTypeTXT(names[k], dnsBuffer).n + ExchangesFor(names, k - 1)

\* C20 as stated: the result of getTypeDKIM is the record of the first
\* candidate whose TXT answer holds a DKIM string, and no later candidate is
\* asked.
C20_FirstMatchWins ==
    probe.op = "getTypeDKIM"
        => IF FirstOf(Candidates(probe.arg), HasDKIM) = 0
           THEN probe.out.val = <<>>
           ELSE /\ probe.out.val =
                      DKIMAt(Candidates(probe.arg)[FirstOf(Candidates(probe.arg), HasDKIM)])
                /\ probe.out.n =
                      ExchangesFor(Candidates(probe.arg),
                                   FirstOf(Candidates(probe.arg), HasDKIM))

\* the search ends at the first candidate that matches or whose exchange fails
DKIMStop(names) ==
    IF FirstOf(names, TXTFails) # 0
       /\ (FirstOf(names, HasDKIM) = 0 \/ FirstOf(names, TXTFails) < FirstOf(names, HasDKIM))
    THEN [at |-> FirstOf(names, TXTFails), found |-> FALSE]
    ELSE IF FirstOf(names, HasDKIM) # 0
    THEN [at |-> FirstOf(names, HasDKIM), found |-> TRUE]
    ELSE [at |-> Len(names), found |-> FALSE]

\* C20: the candidates are asked in order, the caller's selectors before the
\* built-in ones, up to the first whose TXT answer holds a DKIM string or
\* whose exchange fails; the result is the record of the former and empty
\* for the latter, and no later candidate is asked.
C20_FirstMatchOrErrorEnds ==
    probe.op = "getTypeDKIM"
        => /\ probe.out.n =
                 ExchangesFor(Candidates(probe.arg), DKIMStop(Candidates(probe.arg)).at)
           /\ probe.out.val =
                 IF DKIMStop(Candidates(probe.arg)).found
                 THEN DKIMAt(Candidates(probe.arg)[DKIMStop(Candidates(probe.arg)).at])
                 ELSE <<>>
           /\ ~probe.out.err

C20_Witness ==
    /\ probe.op = "getTypeDKIM"
    /\ dkimSelectors = <<"other", "mine">>
    /\ probe.arg = "a.org"
    /\ probe.out.val = <<"v=DKIM1;", " ", "p=MINE">>
    /\ probe.out.n = 2

(***************************************************************************)
(* Reassembly, redirects and search order of the TXT-based resolvers.      *)
(***************************************************************************)
\* the TXT answer of the name holds a string with the prefix
HasRecord(name, prefix) ==
    /\ ~getTypeTXT(name, dnsBuffer).err
    /\ FirstWithPrefix(getTypeTXT(name, dnsBuffer).records, prefix) # 0

\* the string of the name's TXT answer that has the prefix
SegmentAt(name, prefix) ==
    getTypeTXT(name, dnsBuffer).records[
        FirstWithPrefix(getTypeTXT(name, dnsBuffer).records, prefix)]

\* the segments of the name's TXT answer from the one that has the prefix
\* to the last, put together
RecordAt(name, prefix) ==
    Join(SubSeq(getTypeTXT(name, dnsBuffer).records,
                FirstWithPrefix(getTypeTXT(name, dnsBuffer).records, prefix),
                Len(getTypeTXT(name, dnsBuffer).records)))

\* the names a resolver may ask for the domain, and the prefix it looks for
SearchNames(op, d) ==
    CASE op = "getTypeBIMI"  -> <<"default._bimi." \o d, d>>
      [] op = "getTypeDMARC" -> <<"_dmarc." \o d, d>>
      [] op = "getTypeDKIM"  -> Candidates(d)
      [] OTHER -> <<d>>

PrefixFor(op) ==
    CASE op = "getTypeBIMI"  -> <<"v=BIMI1;">>
      [] op = "getTypeDMARC" -> <<"v=DMARC1;">>
      [] op = "getTypeDKIM"  -> <<"v=DKIM1;">>
      [] OTHER -> <<"v=spf1", " ">>

\* the first of the names whose answer holds the prefix, no earlier name
\* having failed; 0 if there is none
FoundAt(names, prefix) ==
    IF \E i \in 1..Len(names) :
          /\ HasRecord(names[i], prefix)
          /\ \A j \in 1..(i - 1) : ~TXTFails(names[j]) /\ ~HasRecord(names[j], prefix)
    THEN CHOOSE i \in 1..Len(names) :
          /\ HasRecord(names[i], prefix)
          /\ \A j \in 1..(i - 1) : ~TXTFails(names[j]) /\ ~HasRecord(names[j], prefix)
    ELSE 0

\* C21: when a resolver finds its prefix at segment i of a TXT answer, its
\* value is the concatenation of the segments i to the last of that answer,
\* for BIMI, DKIM, DMARC and for SPF (a record without redirect).
C21_SegmentsReassembled ==
    /\ (/\ probe.op \in {"getTypeBIMI", "getTypeDKIM", "getTypeDMARC"}
        /\ FoundAt(SearchNames(probe.op, probe.arg), PrefixFor(probe.op)) # 0)
          => probe.out.val =
                RecordAt(SearchNames(probe.op, probe.arg)[
                             FoundAt(SearchNames(probe.op, probe.arg), PrefixFor(probe.op))],
                         PrefixFor(probe.op))
    /\ (/\ probe.op = "getTypeSPF"
        /\ HasRecord(probe.arg, SPFPrefix)
        /\ ~Contains(RecordAt(probe.arg, SPFPrefix), "redirect="))
          => probe.out.val = RecordAt(probe.arg, SPFPrefix)

\* the SPF record is "v=spf1 redirect=T" and nothing else
OnlyRedirect(txt) ==
    /\ Len(txt) = 4
    /\ HasPrefix(txt, SPFPrefix)
    /\ txt[3] = "redirect="

\* C22: when the SPF record of the domain is "v=spf1 redirect=T", the value
\* of getTypeSPF for the domain is its value for T, and it is empty when T
\* has no SPF record.
C22_RedirectFollowed ==
    (/\ probe.op = "getTypeSPF"
     /\ HasRecord(probe.arg, SPFPrefix)
     /\ OnlyRedirect(SegmentAt(probe.arg, SPFPrefix)))
        => /\ probe.out.val =
                 getTypeSPF(SegmentAt(probe.arg, SPFPrefix)[4], dnsBuffer).val
           /\ ~HasRecord(SegmentAt(probe.arg, SPFPrefix)[4], SPFPrefix)
                 => probe.out.val = <<>>

C22_Witness ==
    /\ probe.op = "getTypeSPF"
    /\ probe.arg = "chain.org"
    /\ probe.out.val = <<"v=spf1", " ", "-all">>
    /\ probe.out.n = 3

\* the record holds an all mechanism
HasAll(txt) == \E q \in {"all", "+all", "-all", "~all", "?all"} : Contains(txt, q)

\* C23: for an SPF record that holds both an all mechanism and redirect=T,
\* the value of getTypeSPF is that record and T is not asked.
C23_AllStopsRedirect ==
    (/\ probe.op = "getTypeSPF"
     /\ HasRecord(probe.arg, SPFPrefix)
     /\ HasAll(SegmentAt(probe.arg, SPFPrefix))
     /\ Contains(SegmentAt(probe.arg, SPFPrefix), "redirect="))
        => /\ probe.out.val = SegmentAt(probe.arg, SPFPrefix)
           /\ probe.out.n = getTypeTXT(probe.arg, dnsBuffer).n

\* C30 as stated: the value of getTypeDMARC and getTypeBIMI is the record of
\* the first name when it holds one, and otherwise (no record there, or the
\* query failed) the record of the domain itself, empty if it holds none.
C30_SecondNameOnAnyMiss ==
    probe.op \in {"getTypeDMARC", "getTypeBIMI"}
        => /\ HasRecord(SearchNames(probe.op, probe.arg)[1], PrefixFor(probe.op))
                => probe.out.val =
                      RecordAt(SearchNames(probe.op, probe.arg)[1], PrefixFor(probe.op))
           /\ ~HasRecord(SearchNames(probe.op, probe.arg)[1], PrefixFor(probe.op))
                => probe.out.val =
                      IF HasRecord(probe.arg, PrefixFor(probe.op))
                      THEN RecordAt(probe.arg, PrefixFor(probe.op))
                      ELSE <<>>

\* C30: getTypeDMARC and getTypeBIMI ask the first name; its record is the
\* value when it holds one; when its query fails the value is empty and the
\* domain is not asked; when it answers without a record the domain is asked
\* and its record, if any, is the value.
C30_SecondNameOnEmptyAnswer ==
    probe.op \in {"getTypeDMARC", "getTypeBIMI"}
        => /\ ~probe.out.err
           /\ HasRecord(SearchNames(probe.op, probe.arg)[1], PrefixFor(probe.op))
                => /\ probe.out.val =
                         RecordAt(SearchNames(probe.op, probe.arg)[1], PrefixFor(probe.op))
                   /\ probe.out.n = ExchangesFor(SearchNames(probe.op, probe.arg), 1)
           /\ TXTFails(SearchNames(probe.op, probe.arg)[1])
                => /\ probe.out.val = <<>>
                   /\ probe.out.n = ExchangesFor(SearchNames(probe.op, probe.arg), 1)
           /\ (/\ ~TXTFails(SearchNames(probe.op, probe.arg)[1])
               /\ ~HasRecord(SearchNames(probe.op, probe.arg)[1], PrefixFor(probe.op)))
                => /\ probe.out.val =
                         IF HasRecord(probe.arg, PrefixFor(probe.op))
                         THEN RecordAt(probe.arg, PrefixFor(probe.op))
                         ELSE <<>>
                   /\ probe.out.n = ExchangesFor(SearchNames(probe.op, probe.arg), 2)

C30_Witness ==
    /\ probe.op = "getTypeDMARC"
    /\ probe.arg = "flat.org"
    /\ probe.out.val = <<"v=DMARC1;", " ", "p=none">>
    /\ probe.out.n = 2

(***************************************************************************)
(* dss scan -z: the zone file read from standard input is given to         *)
(* ScanZone.                                                               *)
(***************************************************************************)
\* one call, of as many names as a zone of the model yields
ZoneLoad == [calls |-> Only(1, 1), len |-> MaxDomains, until |-> 0, close |-> FALSE]

\* the scanner of the command, built with the default options
Default ==
    /\ Live
    /\ dkimSelectors = <<>>
    /\ dnsBuffer = DefaultDNSBuffer
    /\ nameservers = DefaultNameservers
    /\ lastNameserverIndex = Zero32

InitZone ==
    /\ Default
    /\ Idle
    /\ load = ZoneLoad
    /\ handler = [kind |-> "zone", read |-> FALSE, zone |-> <<>>]

\* sc.ScanZone(os.Stdin), up to the submitting loop of Scan
cmdScanZone ==
    \E zone \in Zones :
        /\ handler.kind = "zone"
        /\ ~handler.read
        /\ Starting(1, ZoneDomains(zone))
        /\ handler' = [handler EXCEPT !.read = TRUE, !.zone = zone]
        /\ UNCHANGED settings

\* what Scan does after its arguments are checked
Scanning ==
    \/ \E c \in Callers : Submit(c)
    \/ \E c \in Callers : ScanReturn(c)
    \/ \E t \in DOMAIN tasks : TaskGet(t)
    \/ \E t \in DOMAIN tasks : TaskNS(t)
    \/ \E t \in DOMAIN tasks : TaskTXT(t)
    \/ \E t \in DOMAIN tasks, kind \in Lookups : TaskLookup(t, kind)
    \/ \E t \in DOMAIN tasks : TaskAppend(t)
    \/ \E t \in DOMAIN tasks : TaskExit(t)

NextZone ==
    \/ cmdScanZone
    \/ Scanning

SpecZone == InitZone /\ [][NextZone]_vars

\* the owner name without its root dot
WithoutRoot(name) ==
    IF name # <<>> /\ name[Len(name)] = "." THEN SubSeq(name, 1, Len(name) - 1) ELSE name

\* the record is to be scanned: not an NS record, and more than one label
Scannable(tok) ==
    /\ tok.rrtype # "NS"
    /\ \E i \in 1..Len(WithoutRoot(tok.name)) : WithoutRoot(tok.name)[i] = "."

\* the owner names of the records to be scanned, in file order
OwnerNames(zone) ==
    [i \in 1..Len(SelectSeq(zone, Scannable)) |->
        NameOf(WithoutRoot(SelectSeq(zone, Scannable)[i].name))]

\* C24: the names ScanZone passes to Scan are the owner names, without the
\* root dot, of the records that are not NS records and have more than one
\* label, in file order; no other name is scanned or returned.
C24_ZoneNamesScanned ==
    (handler.kind = "zone" /\ handler.read)
        => /\ domains[1] = OwnerNames(handler.zone)
           /\ \A t \in DOMAIN tasks :
                 \E i \in 1..Len(OwnerNames(handler.zone)) :
                    tasks[t].dom = OwnerNames(handler.zone)[i]
           /\ ReturnedNil(1)
                 => SameBag(DomainsOf(ret[1].results), OwnerNames(handler.zone))

C24_Witness ==
    /\ handler.kind = "zone"
    /\ handler.read
    /\ Len(handler.zone) = 4
    /\ domains[1] = <<"sub.a.org", "a.org">>
    /\ ReturnedNil(1)
    /\ Len(ret[1].results) = 2

(***************************************************************************)
(* The lookups of one task run together.                                   *)
(***************************************************************************)
\* C25: no variable is assigned by two lookup goroutines of a task that run
\* at the same time.
C25_NoSharedWrites ==
    \A t \in DOMAIN tasks :
        \A k1 \in Unfinished(t), k2 \in Unfinished(t) :
            k1 # k2 => Writes(k1) \cap Writes(k2) = {}

(***************************************************************************)
(* OverwriteOption: an option applied to a live scanner.                   *)
(***************************************************************************)
\* the configuration of the scanner: its fields and the pool made from them
fields == <<cacheDuration, dkimSelectors, dnsBuffer, nameservers, poolSize, poolCap>>

\* the value of the last option is the one the scanner works with
InForce ==
    CASE probe.op = "WithDNSBuffer"       -> dnsBuffer = probe.arg
      [] probe.op = "WithDKIMSelectors"   -> dkimSelectors = Names(probe.arg)
      [] probe.op = "WithNameservers"     ->
            nameservers = WithNameservers(probe.arg[1], probe.arg[2]).nameservers
      [] probe.op = "WithCacheDuration"   -> cacheDuration = probe.arg
      [] probe.op = "WithConcurrentScans" ->
            poolCap = IF probe.arg <= 0 THEN NumCPU ELSE probe.arg
      [] OTHER -> FALSE

\* C26: OverwriteOption(nil) fails with "invalid option" and changes nothing;
\* an option that fails returns its error and leaves the configuration as it
\* was; an option that succeeds returns nil and its value is in force.
\* what C26 says of the option a live scanner was last given
Overwritten ==
    (probe.op # "none" /\ probe.during = "live")
        => /\ probe.op = "nil" => probe.err = "invalid option"
           /\ probe.err = "nil" => InForce

C26_OverwriteOption ==
    /\ [](Overwritten)
    /\ [][(scanner = "live" /\ probe' # probe /\ probe'.err # "nil")
             => UNCHANGED fields]_vars

(***************************************************************************)
(* dss serve api: the handler of GET /scan/{domain}.  Each request is      *)
(* served by a goroutine of its own, all on the one Scanner of the server. *)
(***************************************************************************)
\* the dkimSelectors query parameter of a request, each selector as the
\* sequence of its characters
RequestSelectors == {<<>>, << <<"m", "i", "n", "e">> >>, << <<"_", "s">> >>}

RequestDomains == {"a.org", "sub.a.org"}

\* the --dkimSelector flags the server is started with
ServerSelectors == {<<>>, <<"other">>}

NoRequest == [stage |-> "none", domain |-> "", selectors |-> <<>>]

InitAPI ==
    /\ Live
    /\ dkimSelectors \in ServerSelectors
    /\ dnsBuffer = DefaultDNSBuffer
    /\ nameservers = DefaultNameservers
    /\ lastNameserverIndex = Zero32
    /\ Idle
    /\ load = Concurrent
    /\ handler = [kind |-> "api", built |-> dkimSelectors,
                  req |-> [c \in Callers |-> NoRequest]]

\* the handler up to its call of Scan: selectors given with the request are
\* written to the scanner with OverwriteOption
scanDomainOverwrite(c) ==
    \E domain \in RequestDomains, selectors \in RequestSelectors :
      \E out \in {WithDKIMSelectors(selectors)} :
        /\ handler.kind = "api"
        /\ handler.req[c].stage = "none"
        /\ dkimSelectors' = IF Len(selectors) > 0 THEN out.dkimSelectors ELSE dkimSelectors
        /\ handler' = [handler EXCEPT !.req[c] =
                          [stage |-> IF Len(selectors) > 0 /\ out.err # "nil"
                                     THEN "error 500" ELSE "accepted",
                           domain |-> domain, selectors |-> selectors]]
        /\ UNCHANGED <<cacheDuration, dnsBuffer, poolSize, nameservers,
                       lastNameserverIndex, scanner, probe, picked, optQuota, poolCap,
                       load, cacheEnabled, running, closed, cache, now, callers, stats,
                       tasks>>

\* s.Scanner.Scan(input.Domain), up to the submitting loop
scanDomainScan(c) ==
    /\ handler.kind = "api"
    /\ handler.req[c].stage = "accepted"
    /\ Starting(c, <<handler.req[c].domain>>)
    /\ handler' = [handler EXCEPT !.req[c].stage = "scanning"]
    /\ UNCHANGED settings

NextAPI ==
    \/ \E c \in Callers : scanDomainOverwrite(c)
    \/ \E c \in Callers : scanDomainScan(c)
    \/ Scanning

SpecAPI == InitAPI /\ [][NextAPI]_vars

\* C27: a request that gives no selectors is scanned with the selectors the
\* server was started with, whatever the other requests gave.
C27_SelectorsPerRequest ==
    handler.kind = "api"
        => \A c \in Callers :
              (/\ handler.req[c].stage = "scanning"
               /\ handler.req[c].selectors = <<>>
               /\ ReturnedNil(c)
               /\ ret[c].results[1].Error = "")
                 => ret[c].results[1].DKIM =
                       getTypeDKIM(handler.req[c].domain, handler.built, dnsBuffer).val

(***************************************************************************)
(* dss serve mail: the loop of mail.Server.handler.  The mail server is    *)
(* the only user of its Scanner; time is counted in minutes.               *)
(***************************************************************************)
CooldownTTL == 1     \* s.cooldown.Set(domain, "", 1*time.Minute)

MailDomains == {"a.org", "sub.a.org"}

\* the DKIM-Signature header GetMail found in a message, if any
MailSignatures == {<<>>, <<"v=1;", " ", "s=mail">>}

\* what GetMail returns: the sender's domain of each message with the
\* signature of the message
Mailboxes ==
    {[d \in {e} |-> [DKIM |-> sig]] : e \in MailDomains, sig \in MailSignatures}
        \cup {[d \in MailDomains |-> [DKIM |-> IF d = "a.org" THEN <<"v=1;", " ", "s=mail">>
                                               ELSE <<>>]]}

\* the orders in which the range over a map can yield the keys
Orders(S) ==
    {ds \in [1..Cardinality(S) -> S] : \A i, j \in 1..Cardinality(S) : ds[i] = ds[j] => i = j}

MailLoad == [calls |-> Only(1, MaxCalls), len |-> MaxDomains, until |-> MaxTime, close |-> FALSE]

InitMail ==
    /\ Default
    /\ Idle
    /\ load = MailLoad
    /\ handler = [kind |-> "mail", stage |-> "idle", addresses |-> <<>>,
                  cooldown |-> <<>>, sent |-> <<>>]

\* s.cooldown.Get(domain)
CoolingDown(domain) ==
    domain \in DOMAIN handler.cooldown /\ ~(now > handler.cooldown[domain])

\* the ticker fires: GetMail, the cooldown filter and the call of Scan, up
\* to its submitting loop
mailCheck ==
    \E addresses \in Mailboxes :
      \E ds \in Orders({d \in DOMAIN addresses : ~CoolingDown(d)}) :
        /\ handler.kind = "mail"
        /\ handler.stage = "idle"
        /\ calls[1] < load.calls[1]
        /\ IF Len(ds) = 0
           THEN /\ handler' = [handler EXCEPT !.addresses = addresses]
                /\ UNCHANGED <<running, closed, cache, now, callers, stats, tasks>>
           ELSE /\ Starting(1, ds)
                /\ handler' =
                      [handler EXCEPT
                          !.addresses = addresses,
                          !.stage = "scanning",
                          !.cooldown =
                              [d \in DOMAIN handler.cooldown \cup {ds[i] : i \in 1..Len(ds)} |->
                                  IF \E i \in 1..Len(ds) : ds[i] = d
                                  THEN now + CooldownTTL ELSE handler.cooldown[d]]]
        /\ UNCHANGED settings

\* result.DKIM = addresses[result.Domain].DKIM, when the message was signed
Rewrite(result) ==
    IF /\ result.Domain \in DOMAIN handler.addresses
       /\ handler.addresses[result.Domain].DKIM # <<>>
    THEN [result EXCEPT !.DKIM = handler.addresses[result.Domain].DKIM]
    ELSE result

\* the loop over the results of Scan.  The results are the *Result values
\* the scanner cache holds, so an assignment to a field of one shows in both.
mailReply ==
    /\ handler.kind = "mail"
    /\ handler.stage = "scanning"
    /\ pc[1] = "returned"
    /\ IF ret[1].err # "nil"
       THEN /\ handler' = [handler EXCEPT !.stage = "idle"]
            /\ UNCHANGED <<ret, cache>>
       ELSE /\ ret' = [ret EXCEPT ![1].results =
                          [i \in 1..Len(ret[1].results) |-> Rewrite(ret[1].results[i])]]
            /\ cache' = [d \in DOMAIN cache |->
                            IF \E i \in 1..Len(ret[1].results) : ret[1].results[i].Domain = d
                            THEN [cache[d] EXCEPT !.value = Rewrite(@)]
                            ELSE cache[d]]
            /\ handler' = [handler EXCEPT !.stage = "idle", !.sent = ret'[1].results]
    /\ UNCHANGED <<settings, running, closed, now, pc, domains, idx, wg, results, calls,
                   late, prev, stats, tasks>>

NextMail ==
    \/ mailCheck
    \/ mailReply
    \/ Scanning
    \/ Tick

SpecMail == InitMail /\ [][NextMail]_vars

\* C28: a Result that is in the cache or was returned by Scan is never
\* modified: the entry of a domain changes only when a task that missed the
\* cache stores its new Result, and what a call returned stays as returned.
C28_ResultsNeverModified ==
    [][/\ \A d \in DOMAIN cache \cap DOMAIN cache' :
             cache'[d] # cache[d]
                 => \E t \in DOMAIN tasks :
                       /\ tasks[t].pc = "exit"
                       /\ tasks[t].dom = d
                       /\ cache'[d] = [value |-> tasks[t].result, exp |-> now + CacheFillTTL]
       /\ \A c \in Callers :
             (pc[c] = "returned" /\ pc'[c] = "returned" /\ calls'[c] = calls[c])
                 => ret'[c] = ret[c]]_vars

(***************************************************************************)
(* The scanner of one domain at a time, with the cache of UseCache.  Time  *)
(* is counted in minutes.                                                  *)
(***************************************************************************)
CacheWindow == 1     \* time.Second * 60

SingleDomains == {"a.org", "sub.a.org", "x.invalid"}

InitSingle ==
    /\ Default
    /\ AtRest
    /\ cacheEnabled \in BOOLEAN
    /\ load = Repeat
    /\ handler = NoHandler

\* GetDNSRecords: the record types one after the other, up to the first error
RECURSIVE GetDNSRecords(_, _, _)
Filled(result, recordTypes, n, r) ==
    IF r.err
    THEN [result |-> [result EXCEPT ![Head(recordTypes)] = r.val], err |-> TRUE, n |-> n + r.n]
    ELSE GetDNSRecords([result EXCEPT ![Head(recordTypes)] = r.val], Tail(recordTypes),
                       n + r.n)

GetDNSRecords(result, recordTypes, n) ==
    IF recordTypes = <<>> THEN [result |-> result, err |-> FALSE, n |-> n]
    ELSE Filled(result, recordTypes, n, Resolve(Head(recordTypes), result.Domain))

\* val.Expiry.Sub(time.Now()) < (time.Second * 60)
Fresh(name) == cache[name].exp - now < CacheWindow

\* Scan(name) with the default record type
ScanName ==
    \E name \in SingleDomains :
      \E r \in {GetDNSRecords(NewResult(name), <<"BIMI", "DKIM", "DMARC", "MX", "SPF">>, 0)} :
        /\ scanner = "live"
        /\ IF cacheEnabled /\ name \in DOMAIN cache /\ Fresh(name)
           THEN /\ probe' = [op |-> "Scan", arg |-> name, hit |-> TRUE, known |-> TRUE,
                             stored |-> cache[name].exp, at |-> now, n |-> 0,
                             out |-> cache[name].value]
                /\ UNCHANGED cache
           ELSE /\ probe' = [op |-> "Scan", arg |-> name, hit |-> FALSE,
                             known |-> cacheEnabled /\ name \in DOMAIN cache,
                             stored |-> IF cacheEnabled /\ name \in DOMAIN cache
                                        THEN cache[name].exp ELSE now,
                             at |-> now, n |-> r.n,
                             out |-> [r.result EXCEPT
                                         !.Error = IF r.err THEN "All: lookup failed" ELSE @]]
                /\ cache' = IF cacheEnabled
                            THEN [k \in DOMAIN cache \cup {name} |->
                                     IF k = name THEN [value |-> probe'.out, exp |-> now]
                                     ELSE cache[k]]
                            ELSE cache
        /\ UNCHANGED <<cacheDuration, dkimSelectors, dnsBuffer, poolSize, nameservers,
                       lastNameserverIndex, scanner, picked, optQuota, poolCap, load,
                       cacheEnabled, handler, running, closed, now, callers, stats, tasks>>

NextSingle ==
    \/ ScanName
    \/ Tick

SpecSingle == InitSingle /\ [][NextSingle]_vars

\* C29: with the cache enabled, a Scan of a domain whose result was stored
\* less than 60 seconds ago returns the stored result, and a Scan more than
\* 60 seconds after the store scans the domain anew.
C29_CachedForSixtySeconds ==
    (probe.op = "Scan" /\ cacheEnabled /\ probe.known)
        => /\ probe.at - probe.stored < CacheWindow => probe.hit
           /\ probe.at - probe.stored > CacheWindow => ~probe.hit /\ probe.n > 0

(***************************************************************************)
(* The five lookups of a task: started after the check of the name, run    *)
(* together, joined before the Result is shown.                            *)
(***************************************************************************)
\* the lookups have all ended when the Result of a valid domain is appended
\* or stored, and none has started for a name that was not found valid
Joined ==
    \A t \in DOMAIN tasks :
        /\ (tasks[t].pc \in {"append", "exit"} /\ tasks[t].result.Error = "")
               => tasks[t].done = Lookups
        /\ tasks[t].done # {} => NSFound(tasks[t].dom) \/ TXTFound(tasks[t].dom)

\* a step in which a lookup of task t ends
LookupEnds(t) == t \in DOMAIN tasks' /\ tasks'[t].done # tasks[t].done

\* C31: the five lookups of a domain start only after its name was found
\* valid and run in any order; the Result is appended and stored in the cache
\* only after all five have ended, and a lookup writes nothing but the Result
\* of its own task, which neither the caller nor the cache holds yet.
C31_LookupsJoined ==
    /\ [](Joined)
    /\ [][\A t \in DOMAIN tasks :
             /\ LookupEnds(t)
                    => /\ tasks[t].pc = "fan"
                       /\ \E kind \in Unfinished(t) :
                              tasks'[t].done = tasks[t].done \cup {kind}
                       /\ UNCHANGED <<results, ret, cache>>
             /\ (tasks[t].pc = "fan" /\ tasks[t].done # Lookups /\ ~LookupEnds(t))
                    => /\ t \in DOMAIN tasks'
                       /\ tasks'[t].result = tasks[t].result
                       /\ (tasks[t].dom \in DOMAIN cache' /\ tasks[t].dom \in DOMAIN cache
                              => cache'[tasks[t].dom] = cache[tasks[t].dom])]_vars

\* the lookup started last has ended and the four started before it have not
C31_Witness ==
    \E t \in DOMAIN tasks :
        /\ tasks[t].pc = "fan"
        /\ tasks[t].done = {"SPF"}
        /\ tasks[t].result.SPF # <<>>

\* C32: when Scan has returned, with its results or with the error of a
\* submission, no task of the call is left running.
C32_NoTaskAfterReturn ==
    \A c \in Callers : Returned(c) => OfCall(c) = {}

(***************************************************************************)
(* What the cache holds when Scan returns.                                 *)
(***************************************************************************)
\* the step in which the call of c returns its results
ReturnsNil(c) == pc[c] = "wait" /\ pc'[c] = "returned" /\ ret'[c].err = "nil"

\* every Result of r is the one the cache holds for its domain
HeldFor(r, held) ==
    \A i \in 1..Len(r) :
        r[i].Domain \in DOMAIN held /\ held[r[i].Domain].value = r[i]

\* the call of c repeats its previous call while the cache holds every entry
\* of it, and it has the Result of an invalid domain
RepeatsInvalid(c) ==
    /\ ReturnedNil(c)
    /\ ~closed
    /\ prev[c].valid
    /\ domains[c] = prev[c].domains
    /\ now <= prev[c].exp
    /\ \E i \in 1..Len(prev[c].results) : prev[c].results[i].Error = "invalid domain name"

InvalidServedFromCache ==
    \A c \in Callers :
        RepeatsInvalid(c) => SameBag(ret[c].results, prev[c].results) /\ stats[c].sent = 0

SPFDomains ==
    {"a.org", "sub.a.org", "x.invalid", "both.org", "chain.org", "chain2.org", "lost.org",
     "loop.org", "ping.org", "pong.org", "into.org"}

InitSPF ==
    /\ Live
    /\ dnsBuffer \in Buffers
    /\ dkimSelectors = <<>>
    /\ nameservers = DefaultNameservers
    /\ lastNameserverIndex = Zero32
    /\ Idle
    /\ load = NoLoad
    /\ handler = [kind |-> "spf", stage |-> "idle"]

\* the SPF goroutine of a task calls s.getTypeSPF(domainToScan)
StartSPF ==
    \E domain \in SPFDomains :
        /\ handler.kind = "spf"
        /\ handler.stage \in {"idle", "returned"}
        /\ handler' = [handler EXCEPT !.stage = "scanning"]
        /\ probe' = [op |-> "getTypeSPF", arg |-> domain, at |-> domain, pc |-> "run",
                     lookups |-> 0, val |-> <<>>, err |-> FALSE]
        /\ UNCHANGED <<cacheDuration, dkimSelectors, dnsBuffer, poolSize, nameservers,
                       lastNameserverIndex, scanner, picked, optQuota, poolCap, load,
                       cacheEnabled, running, closed, cache, now, callers, stats, tasks>>

Counted(n) == IF n < MaxHops THEN n + 1 ELSE n

\* the end of the resolution with a value
Ended(val, err) ==
    [probe EXCEPT !.pc = "done", !.val = val, !.err = err, !.lookups = Counted(@)]

InvocationDepthOne(t, index) ==
    IF t.err THEN Ended(<<>>, TRUE)
    ELSE IF index = 0 THEN Ended(<<>>, FALSE)
    ELSE IF ~Contains(t.records[index], "redirect=") THEN Ended(t.records[index], FALSE)
    ELSE IF probe.lookups >= 1 THEN Ended(<<>>, FALSE)
    ELSE [probe EXCEPT !.at = RedirectDomain(t.records[index]), !.lookups = Counted(@)]

\* one invocation of getTypeSPF after its call t of getTypeTXT, index being
\* the SPF record: it ends, or calls getTypeSPF on the redirect target
Invocation(t, index) ==
    IF t.err THEN Ended(<<>>, TRUE)
    ELSE IF index = 0 THEN Ended(<<>>, FALSE)
    ELSE IF ~Contains(t.records[index], "redirect=") THEN Ended(t.records[index], FALSE)
    ELSE [probe EXCEPT !.at = RedirectDomain(t.records[index]), !.lookups = Counted(@)]

StepSPF ==
    /\ handler.kind = "spf"
    /\ probe.op = "getTypeSPF"
    /\ probe.pc = "run"
    /\ \E t \in {getTypeTXT(probe.at, dnsBuffer)} :
           probe' = Invocation(t, FirstWithPrefix(t.records, SPFPrefix))
    /\ UNCHANGED <<cacheDuration, dkimSelectors, dnsBuffer, poolSize, nameservers,
                   lastNameserverIndex, scanner, picked, optQuota, poolCap, load,
                   cacheEnabled, running, closed, cache, now, callers, stats, tasks,
                   handler>>

\* scanWg.Wait() is over once the lookup has ended; the task appends its
\* Result and Scan returns
ReturnSPF ==
    /\ handler.kind = "spf"
    /\ handler.stage = "scanning"
    /\ probe.pc = "done"
    /\ handler' = [handler EXCEPT !.stage = "returned"]
    /\ UNCHANGED <<settings, running, closed, cache, now, callers, stats, tasks>>

NextSPF ==
    \/ StartSPF
    \/ StepSPF
    \/ ReturnSPF

SpecSPF == InitSPF /\ [][NextSPF]_vars

\* the SPF record of d names a redirect target
Redirects(d) ==
    /\ ~getTypeTXT(d, dnsBuffer).err
    /\ \E i \in 1..Len(getTypeTXT(d, dnsBuffer).records) :
          /\ HasPrefix(getTypeTXT(d, dnsBuffer).records[i], SPFPrefix)
          /\ \A j \in 1..(i - 1) : ~HasPrefix(getTypeTXT(d, dnsBuffer).records[j], SPFPrefix)
          /\ Contains(getTypeTXT(d, dnsBuffer).records[i], "redirect=")

Target(d) ==
    RedirectDomain(getTypeTXT(d, dnsBuffer).records[
                       FirstWithPrefix(getTypeTXT(d, dnsBuffer).records, SPFPrefix)])

\* the domain reached from d after k redirects, or the end of the chain
RECURSIVE Walk(_, _)
Walk(d, k) == IF k = 0 \/ ~Redirects(d) THEN d ELSE Walk(Target(d), k - 1)

\* the chain of d runs into a cycle: it still redirects after as many
\* redirects as there are domains
Cyclic(d) == Redirects(Walk(d, Cardinality(SPFDomains)))

\* the number of redirects of the acyclic chain of d
Redirections(d) ==
    CHOOSE k \in 0..Cardinality(SPFDomains) :
        /\ ~Redirects(Walk(d, k))
        /\ \A j \in 0..(k - 1) : Redirects(Walk(d, j))

\* C34: the SPF resolution of a domain with an acyclic chain of n redirects
\* makes n+1 TXT lookups and returns what the domain at the end of the chain
\* resolves to; on a chain with a cycle the resolution never ends and the
\* Scan that waits for it never returns.
C34_RedirectsUnbounded ==
    (handler.kind = "spf" /\ probe.op = "getTypeSPF")
        => /\ Cyclic(probe.arg) => probe.pc # "done" /\ handler.stage # "returned"
           /\ (~Cyclic(probe.arg) /\ probe.pc = "done")
                 => /\ probe.lookups = Redirections(probe.arg) + 1
                    /\ probe.val = getTypeSPF(Walk(probe.arg, Redirections(probe.arg)),
                                              dnsBuffer).val
                    /\ probe.val = getTypeSPF(probe.arg, dnsBuffer).val
                    /\ probe.err = getTypeSPF(probe.arg, dnsBuffer).err

C34_Witness ==
    /\ handler.kind = "spf"
    /\ probe.op = "getTypeSPF"
    /\ probe.arg = "chain2.org"
    /\ probe.pc = "done"
    /\ probe.at = "spf.a.org"
    /\ probe.lookups = 4
    /\ probe.val = <<"v=spf1", " ", "-all">>
    /\ handler.stage = "returned"

\* a resolution on a cycle that has made as many lookups as are counted
C34_WitnessCycle ==
    /\ handler.kind = "spf"
    /\ probe.op = "getTypeSPF"
    /\ probe.arg = "into.org"
    /\ probe.at = "pong.org"
    /\ probe.lookups = MaxHops

(***************************************************************************)
(* The resource record a resolved value comes from.                        *)
(***************************************************************************)
\* the resource records of the TXT answer of the name
Answer(name) == getDNSAnswers(name, "TXT", dnsBuffer).answer

\* the answer holds TXT records only, no alias to follow
Direct(name) == \A i \in 1..Len(Answer(name)) : Answer(name)[i].rrtype = "TXT"

\* a string of the resource record rr has the prefix
Holds(rr, prefix) == \E k \in 1..Len(rr.txt) : HasPrefix(rr.txt[k], prefix)

\* the first resource record of the answer that holds the prefix
OwnRecord(name, prefix) ==
    Answer(name)[CHOOSE i \in 1..Len(Answer(name)) :
                    /\ Holds(Answer(name)[i], prefix)
                    /\ \A j \in 1..(i - 1) : ~Holds(Answer(name)[j], prefix)]

\* the strings of that resource record from the one with the prefix to its
\* last, put together
OwnSegments(name, prefix) ==
    Join(SubSeq(OwnRecord(name, prefix).txt,
                FirstWithPrefix(OwnRecord(name, prefix).txt, prefix),
                Len(OwnRecord(name, prefix).txt)))

\* C35: the value resolved for BIMI, DKIM or DMARC is made of strings of the
\* one TXT resource record in which the prefix was found; the strings of the
\* resource records that follow it in the answer are not part of it.
C35_OneResourceRecord ==
    (/\ probe.op \in {"getTypeBIMI", "getTypeDKIM", "getTypeDMARC"}
     /\ FoundAt(SearchNames(probe.op, probe.arg), PrefixFor(probe.op)) # 0
     /\ Direct(SearchNames(probe.op, probe.arg)[
                   FoundAt(SearchNames(probe.op, probe.arg), PrefixFor(probe.op))]))
        => probe.out.val =
              OwnSegments(SearchNames(probe.op, probe.arg)[
                              FoundAt(SearchNames(probe.op, probe.arg), PrefixFor(probe.op))],
                          PrefixFor(probe.op))

(***************************************************************************)
(* OverwriteOption between the scans of a live scanner.                    *)
(***************************************************************************)
InitOverwrite ==
    /\ Default
    /\ Idle
    /\ load \in {Concurrent, Repeat}
    /\ handler = NoHandler

\* Scan(domain)
ScanOne(c) == \E domain \in {"a.org", "x.invalid"} : ScanStart(c, <<domain>>)

NextOverwrite ==
    \/ ApplyConcurrentScans
    \/ ApplyCacheDuration
    \/ \E c \in Callers : ScanOne(c)
    \/ Scanning
    \/ Tick

SpecOverwrite == InitOverwrite /\ [][NextOverwrite]_vars

\* the step is an OverwriteOption of one of the two options
Overwrites(op) == scanner = "live" /\ probe' # probe /\ probe'.op = op

\* the pool runs as many tasks as New allowed, and an entry of the cache
\* expires as long after its store as New and Scan fixed
AsConstructed ==
    /\ poolCap = NumCPU
    /\ running <= NumCPU
    /\ \A d \in DOMAIN cache : cache[d].exp <= now + CacheFillTTL

C37_EmptyZoneIsAnError ==
    (handler.kind = "zone" /\ handler.read /\ OwnerNames(handler.zone) = <<>>)
        => /\ pc[1] = "returned"
           /\ ret[1] = [results |-> <<>>, err |-> "no domains to scan"]
           /\ tasks = <<>>
           /\ running = 0
           /\ stats[1].sent = 0
           /\ cache = <<>>

C37_Witness ==
    /\ handler.kind = "zone"
    /\ handler.read
    /\ Len(handler.zone) = 2
    /\ OwnerNames(handler.zone) = <<>>
    /\ ret[1].err = "no domains to scan"

(***************************************************************************)
(* pkg/cache: a map of entries under one mutex, with a cleanup goroutine.  *)
(* The variable cache is the map, key -> [value, timestamp]; handler holds *)
(* the mutex, the callers inside Get, Set and Flush, and the cleanup        *)
(* goroutine.  A caller stores its own number as the value; 0 is nil.      *)
(***************************************************************************)
Keys == {"k1", "k2"}
TTLs == {0, 1}           \* the ttl given to New
CacheOps == {[op |-> "Get", key |-> k] : k \in Keys}
                \cup {[op |-> "Set", key |-> k] : k \in Keys}
                \cup {[op |-> "Flush", key |-> ""]}

Outside == [pc |-> "out", op |-> "", key |-> "", ret |-> 0]
Unset == [set |-> FALSE, value |-> 0, at |-> 0]

InitCache ==
    /\ Default
    /\ Idle
    /\ load = [calls |-> [c \in Callers |-> 0], len |-> 0, until |-> MaxAge, close |-> FALSE]
    /\ \E ttl \in TTLs :
          handler = [kind |-> "cache", ttl |-> ttl, locked |-> FALSE, cleaner |-> "sleep",
                     proc |-> [p \in Callers |-> Outside],
                     last |-> [k \in Keys |-> Unset]]

\* everything but the map and the state of the package
besides == <<settings, running, closed, now, callers, stats, tasks>>

\* time.Since(entry.timestamp) > c.ttl
Expired(entry) == now - entry.timestamp > handler.ttl

Without(key) == [k \in DOMAIN cache \ {key} |-> cache[k]]

\* a caller enters Get, Set or Flush and comes to c.mutex.Lock()
Call(p) ==
    \E o \in CacheOps :
        /\ handler.kind = "cache"
        /\ handler.proc[p].pc = "out"
        /\ handler' = [handler EXCEPT !.proc[p] =
                          [pc |-> "lock", op |-> o.op, key |-> o.key, ret |-> 0]]
        /\ UNCHANGED <<cache, besides>>

LockUnchecked(p) ==
    /\ handler.kind = "cache"
    /\ handler.proc[p].pc = "lock"
    /\ handler' = [handler EXCEPT !.locked = TRUE, !.proc[p].pc = "in"]
    /\ UNCHANGED <<cache, besides>>

\* c.mutex.Lock() of a caller
Lock(p) ==
    /\ handler.kind = "cache"
    /\ handler.proc[p].pc = "lock"
    /\ ~handler.locked
    /\ handler' = [handler EXCEPT !.locked = TRUE, !.proc[p].pc = "in"]
    /\ UNCHANGED <<cache, besides>>

\* the body of Get and the deferred Unlock
Get(p) ==
    /\ handler.kind = "cache"
    /\ handler.proc[p].pc = "in"
    /\ handler.proc[p].op = "Get"
    /\ IF handler.proc[p].key \in DOMAIN cache
       THEN IF Expired(cache[handler.proc[p].key])
            THEN /\ cache' = Without(handler.proc[p].key)
                 /\ handler' = [handler EXCEPT !.locked = FALSE,
                                               !.proc[p].pc = "out", !.proc[p].ret = 0]
            ELSE /\ cache' = cache
                 /\ handler' = [handler EXCEPT !.locked = FALSE,
                                   !.proc[p].pc = "out",
                                   !.proc[p].ret = cache[handler.proc[p].key].value]
       ELSE /\ cache' = cache
            /\ handler' = [handler EXCEPT !.locked = FALSE,
                                          !.proc[p].pc = "out", !.proc[p].ret = 0]
    /\ UNCHANGED besides

\* the body of Flush and the deferred Unlock
Flush(p) ==
    /\ handler.kind = "cache"
    /\ handler.proc[p].pc = "in"
    /\ handler.proc[p].op = "Flush"
    /\ cache' = <<>>
    /\ handler' = [handler EXCEPT !.locked = FALSE, !.proc[p].pc = "out",
                                  !.last = [k \in Keys |-> Unset]]
    /\ UNCHANGED besides

\* the body of Set and the deferred Unlock
Set(p) ==
    /\ handler.kind = "cache"
    /\ handler.proc[p].pc = "in"
    /\ handler.proc[p].op = "Set"
    /\ cache' = [k \in DOMAIN cache \cup {handler.proc[p].key} |->
                    IF k = handler.proc[p].key THEN [value |-> p, timestamp |-> now]
                    ELSE cache[k]]
    /\ handler' = [handler EXCEPT !.locked = FALSE, !.proc[p].pc = "out",
                      !.last[handler.proc[p].key] = [set |-> TRUE, value |-> p, at |-> now]]
    /\ UNCHANGED besides

\* cleanup: time.Sleep(c.ttl) is over and the mutex is taken
cleanupLock ==
    /\ handler.kind = "cache"
    /\ handler.cleaner = "sleep"
    /\ ~handler.locked
    /\ handler' = [handler EXCEPT !.locked = TRUE, !.cleaner = "in"]
    /\ UNCHANGED <<cache, besides>>

cleanupEverything ==
    /\ handler.kind = "cache"
    /\ handler.cleaner = "in"
    /\ cache' = <<>>
    /\ handler' = [handler EXCEPT !.locked = FALSE, !.cleaner = "sleep"]
    /\ UNCHANGED besides

\* cleanup: the loop over the map and the Unlock
cleanup ==
    /\ handler.kind = "cache"
    /\ handler.cleaner = "in"
    /\ cache' = [k \in {j \in DOMAIN cache : ~Expired(cache[j])} |-> cache[k]]
    /\ handler' = [handler EXCEPT !.locked = FALSE, !.cleaner = "sleep"]
    /\ UNCHANGED besides

NextCache ==
    \/ \E p \in Callers : Call(p)
    \/ \E p \in Callers : Lock(p)
    \/ \E p \in Callers : Get(p)
    \/ \E p \in Callers : Set(p)
    \/ \E p \in Callers : Flush(p)
    \/ cleanupLock
    \/ cleanup
    \/ Tick

SpecCache == InitCache /\ [][NextCache]_vars

\* the callers and the goroutine that hold the mutex
Inside ==
    {p \in Callers : handler.proc[p].pc = "in"}
        \cup (IF handler.cleaner = "in" THEN {0} ELSE {})

OneInside ==
    handler.kind = "cache"
        => /\ Cardinality(Inside) <= 1
           /\ handler.locked <=> Inside # {}

\* the step in which caller p leaves the operation op
Leaves(p, op) ==
    /\ handler.proc[p].pc = "in"
    /\ handler.proc[p].op = op
    /\ handler'.proc[p].pc = "out"

\* what Get(key) is to return: the value of the last Set of the key since
\* the last Flush, if it is not older than ttl
Expected(key) ==
    IF handler.last[key].set /\ now - handler.last[key].at <= handler.ttl
    THEN handler.last[key].value ELSE 0

\* C38: Get, Set, Flush and the cleanup exclude each other; Get returns the
\* value of the latest Set of its key unless a Flush came since or the entry
\* is older than ttl, and it deletes an entry it finds expired; an entry
\* disappears otherwise only by a Flush or, once expired, by the cleanup; an
\* entry changes only by a Set that installs a new one.
C38_CacheIsSynchronized ==
    /\ [](OneInside)
    /\ [][\A p \in Callers :
             /\ Leaves(p, "Get")
                   => /\ handler'.proc[p].ret = Expected(handler.proc[p].key)
                      /\ handler.proc[p].key \notin DOMAIN cache'
                            \/ ~Expired(cache[handler.proc[p].key])
                      /\ \A k \in DOMAIN cache \ {handler.proc[p].key} :
                            k \in DOMAIN cache' /\ cache'[k] = cache[k]
             /\ (~\E q \in Callers : Leaves(q, "Flush"))
                   => \A k \in DOMAIN cache \ DOMAIN cache' : Expired(cache[k])
             /\ \A k \in DOMAIN cache' :
                   (k \notin DOMAIN cache \/ cache'[k] # cache[k])
                       => \E q \in Callers :
                             /\ Leaves(q, "Set")
                             /\ handler.proc[q].key = k
                             /\ cache'[k] = [value |-> q, timestamp |-> now]]_vars

\* a Get of a key that the other caller set two minutes earlier, with a ttl
\* of one minute, returned nil and the entry is gone
C38_Witness ==
    /\ handler.kind = "cache"
    /\ handler.ttl = 1
    /\ handler.proc[1].op = "Get"
    /\ handler.proc[1].pc = "out"
    /\ handler.proc[1].ret = 0
    /\ handler.last[handler.proc[1].key].set
    /\ handler.last[handler.proc[1].key].value = 2
    /\ handler.proc[1].key \notin DOMAIN cache
    /\ now = handler.last[handler.proc[1].key].at + 2

(***************************************************************************)
(* pkg/scanner/source.go: zonefileSource.  handler holds the fields of the *)
(* source (ch, stop, closed), the reader goroutine started by Read, the    *)
(* position of the caller inside Close, and what has been observed: the    *)
(* names received, the number of times ch was closed, the last return of   *)
(* Read and the panic that ended the program.                              *)
(***************************************************************************)
InitSource ==
    /\ Default
    /\ Idle
    /\ load = NoLoad
    /\ \E zone \in Zones :
          handler = [kind |-> "source", left |-> zone,
                     ch |-> "nil", stop |-> "nil", closed |-> FALSE,
                     reader |-> "none", closer |-> "out",
                     got |-> <<>>, closes |-> 0, ret |-> "none", noop |-> FALSE,
                     panic |-> ""]

\* the program is running and the caller is not inside Close
Calling ==
    /\ handler.kind = "source"
    /\ handler.panic = ""
    /\ handler.closer = "out"

\* src.Read()
Read ==
    /\ Calling
    /\ handler' =
          IF handler.closed THEN [handler EXCEPT !.ret = "nil"]
          ELSE IF handler.ch # "nil" THEN [handler EXCEPT !.ret = "ch"]
          ELSE [handler EXCEPT !.ch = "open",
                               !.stop = IF handler.stop = "nil" THEN "open" ELSE handler.stop,
                               !.reader = "next", !.ret = "ch"]
    /\ UNCHANGED <<cache, besides>>

\* read(): z.Next() and the two tests of the record
readNext ==
    /\ handler.kind = "source"
    /\ handler.panic = ""
    /\ handler.reader = "next"
    /\ handler' =
          IF handler.left = <<>> THEN [handler EXCEPT !.reader = "return"]
          ELSE IF Head(handler.left).rrtype = "NS"
                  \/ ~Contains(Trim(Head(handler.left).name, "."), ".")
          THEN [handler EXCEPT !.left = Tail(handler.left)]
          ELSE [handler EXCEPT !.reader = "select"]
    /\ UNCHANGED <<cache, besides>>

\* read(): case src.ch <- name, taken with a receiver or on a closed channel
readSend ==
    /\ handler.kind = "source"
    /\ handler.panic = ""
    /\ handler.reader = "select"
    /\ handler' =
          IF handler.ch = "closed"
          THEN [handler EXCEPT !.panic = "send on closed channel"]
          ELSE [handler EXCEPT
                   !.got = Append(handler.got, NameOf(Trim(Head(handler.left).name, "."))),
                   !.left = Tail(handler.left), !.reader = "next"]
    /\ UNCHANGED <<cache, besides>>

\* read(): case <-src.stop, which only a closed stop makes ready
readStop ==
    /\ handler.kind = "source"
    /\ handler.panic = ""
    /\ handler.reader = "select"
    /\ handler.stop = "closed"
    /\ handler' = [handler EXCEPT !.reader = "return"]
    /\ UNCHANGED <<cache, besides>>

\* read(): the deferred close(src.ch)
readReturn ==
    /\ handler.kind = "source"
    /\ handler.panic = ""
    /\ handler.reader = "return"
    /\ handler' =
          IF handler.ch = "closed"
          THEN [handler EXCEPT !.panic = "close of closed channel"]
          ELSE [handler EXCEPT !.ch = "closed", !.closes = handler.closes + 1,
                               !.reader = "done"]
    /\ UNCHANGED <<cache, besides>>

\* Close(): the test of closed and of len(src.ch), which is 0 for a nil
\* channel and for the unbuffered channel that Read makes
zonefileClose ==
    /\ Calling
    /\ handler' = IF handler.closed THEN [handler EXCEPT !.noop = TRUE]
                  ELSE [handler EXCEPT !.closer = "ch"]
    /\ UNCHANGED <<cache, besides>>

\* Close(): close(src.ch)
closeCh ==
    /\ handler.kind = "source"
    /\ handler.panic = ""
    /\ handler.closer = "ch"
    /\ handler' =
          IF handler.ch = "nil" THEN [handler EXCEPT !.panic = "close of nil channel"]
          ELSE IF handler.ch = "closed"
          THEN [handler EXCEPT !.panic = "close of closed channel"]
          ELSE [handler EXCEPT !.ch = "closed", !.closes = handler.closes + 1,
                               !.closer = "stop"]
    /\ UNCHANGED <<cache, besides>>

\* Close(): close(src.stop); src.closed = true; return nil
closeStop ==
    /\ handler.kind = "source"
    /\ handler.panic = ""
    /\ handler.closer = "stop"
    /\ handler' = [handler EXCEPT !.stop = "closed", !.closed = TRUE, !.closer = "out"]
    /\ UNCHANGED <<cache, besides>>

NextSource ==
    \/ Read
    \/ readNext
    \/ readSend
    \/ readStop
    \/ readReturn
    \/ zonefileClose
    \/ closeCh
    \/ closeStop

SpecSource == InitSource /\ [][NextSource]_vars

\* C39: whatever the interleaving of Close with the reader, the channel is
\* closed once, by one close that does not panic, and no send meets a closed
\* channel; Close does not panic when Read was never called; a second Close
\* changes nothing and a Read after Close returns nil.
C39_SourceClosesOnce ==
    /\ [](handler.kind = "source" => handler.panic = "" /\ handler.closes <= 1)
    /\ [][/\ (Calling /\ handler.closed /\ handler'.noop /\ ~handler.noop)
                 => handler' = [handler EXCEPT !.noop = TRUE]
          /\ (Calling /\ handler.closed /\ handler'.ret # handler.ret)
                 => handler'.ret = "nil"]_vars

(***************************************************************************)
(* scanner/scanner.go: the channel-based scanner.  handler holds the       *)
(* semaphore built by New from the ConcurrentScans options, the names the  *)
(* source still has to give, the loop of start, one goroutine per name     *)
(* read, the WaitGroup and the results the consumer has received.          *)
(***************************************************************************)
\* the arguments of the ConcurrentScans options given to New, in order
OptionLists == {<<>>, <<0>>, <<-1>>, <<1>>, <<3>>, <<3, 1>>, <<1, 0>>}

\* the names a source gives before it closes its channel
Sources == {<<>>, <<"a.org">>, <<"a.org", "sub.a.org">>, <<"a.org", "a.org", "sub.a.org">>,
            <<"sub.a.org", "a.org", "x.invalid", "a.org">>}

\* ConcurrentScans(n) applied to a scanner whose semaphore has capacity sem
\* (0 for a nil channel)
ConcurrentScans(n, sem) == IF n <= 0 THEN NumCPU ELSE n

\* the capacity of s.sem after the options and the default of New
RECURSIVE Capacity(_, _)
Capacity(options, sem) ==
    IF options = <<>> THEN (IF sem = 0 THEN NumCPU ELSE sem)
    ELSE Capacity(Tail(options), ConcurrentScans(Head(options), sem))

InitStart ==
    /\ Default
    /\ Idle
    /\ load = NoLoad
    /\ \E options \in OptionLists, names \in Sources :
          handler = [kind |-> "start", options |-> options, names |-> names,
                     cap |-> Capacity(options, 0), sem |-> Capacity(options, 0),
                     read |-> 0, main |-> "range",
                     go |-> [i \in 1..Len(names) |-> "none"],
                     wg |-> 0, delivered |-> <<>>, open |-> TRUE]

\* start: the range over src.Read() gives the next name or ends
startRange ==
    /\ handler.kind = "start"
    /\ handler.main = "range"
    /\ handler' = IF handler.read < Len(handler.names)
                  THEN [handler EXCEPT !.read = handler.read + 1, !.main = "sem"]
                  ELSE [handler EXCEPT !.main = "wait"]
    /\ UNCHANGED <<cache, besides>>

startGoWithoutToken ==
    /\ handler.kind = "start"
    /\ handler.main = "sem"
    /\ handler' = [handler EXCEPT !.wg = handler.wg + 1,
                                  !.go[handler.read] = "scan", !.main = "range"]
    /\ UNCHANGED <<cache, besides>>

\* start: <-sc.sem, wg.Add(1) and the go statement
startGo ==
    /\ handler.kind = "start"
    /\ handler.main = "sem"
    /\ handler.sem > 0
    /\ handler' = [handler EXCEPT !.sem = handler.sem - 1, !.wg = handler.wg + 1,
                                  !.go[handler.read] = "scan", !.main = "range"]
    /\ UNCHANGED <<cache, besides>>

\* the goroutine: sc.scan(dname) returns
goScan(i) ==
    /\ handler.kind = "start"
    /\ handler.go[i] = "scan"
    /\ handler' = [handler EXCEPT !.go[i] = "send"]
    /\ UNCHANGED <<cache, besides>>

\* the goroutine: ch <- result, taken by the consumer
goSend(i) ==
    /\ handler.kind = "start"
    /\ handler.go[i] = "send"
    /\ handler.open
    /\ handler' = [handler EXCEPT !.go[i] = "sem",
                      !.delivered = Append(handler.delivered, handler.names[i])]
    /\ UNCHANGED <<cache, besides>>

\* the goroutine: sc.sem <- struct{}{}, which needs room in the channel
goRelease(i) ==
    /\ handler.kind = "start"
    /\ handler.go[i] = "sem"
    /\ handler.sem < handler.cap
    /\ handler' = [handler EXCEPT !.go[i] = "done", !.sem = handler.sem + 1]
    /\ UNCHANGED <<cache, besides>>

\* the goroutine: wg.Done()
goDone(i) ==
    /\ handler.kind = "start"
    /\ handler.go[i] = "done"
    /\ handler' = [handler EXCEPT !.go[i] = "exit", !.wg = handler.wg - 1]
    /\ UNCHANGED <<cache, besides>>

\* start: wg.Wait() returns and the deferred close(ch) runs
startReturn ==
    /\ handler.kind = "start"
    /\ handler.main = "wait"
    /\ handler.wg = 0
    /\ handler' = [handler EXCEPT !.main = "exit", !.open = FALSE]
    /\ UNCHANGED <<cache, besides>>

NextStart ==
    \/ startRange
    \/ startGo
    \/ \E i \in 1..Len(handler.names) : goScan(i)
    \/ \E i \in 1..Len(handler.names) : goSend(i)
    \/ \E i \in 1..Len(handler.names) : goRelease(i)
    \/ \E i \in 1..Len(handler.names) : goDone(i)
    \/ startReturn

SpecStart == InitStart /\ [][NextStart]_vars

\* the n of the claim: the argument of the last ConcurrentScans option, or
\* the number of CPUs when it is not positive or when there is no option
Limit ==
    IF handler.options = <<>> THEN NumCPU
    ELSE IF handler.options[Len(handler.options)] <= 0 THEN NumCPU
    ELSE handler.options[Len(handler.options)]

\* the goroutines that are scanning or hold a result not yet delivered
Scans == {i \in 1..Len(handler.names) : handler.go[i] \in {"scan", "send"}}

\* the names read from the source so far
NamesRead == SubSeq(handler.names, 1, handler.read)

\* C40: Start runs at most n scans at a time; no name gets more than one
\* result and none that was not read gets one; when the result channel is
\* closed every name read has exactly one result delivered and the
\* semaphore holds its n tokens; as long as the channel is open some step of
\* Start, of a goroutine or of the consumer is possible.
C40_StartBounded ==
    handler.kind = "start"
        => /\ handler.cap = Limit
           /\ Cardinality(Scans) <= Limit
           /\ \A d \in Domains : Count(handler.delivered, d) <= Count(NamesRead, d)
           /\ ~handler.open
                 => /\ handler.read = Len(handler.names)
                    /\ \A d \in Domains :
                          Count(handler.delivered, d) = Count(handler.names, d)
                    /\ Len(handler.delivered) = Len(handler.names)
                    /\ handler.sem = Limit
           /\ handler.open => ENABLED NextStart

\* a source of four names has been scanned under the limit of the CPU count,
\* the results came in another order and the channel is closed
C40_Witness ==
    /\ handler.kind = "start"
    /\ handler.options = <<1, 0>>
    /\ Len(handler.names) = 4
    /\ ~handler.open
    /\ handler.delivered # handler.names
    /\ handler.sem = NumCPU

\* three scans run at once under a limit of three
C40_WitnessRunning ==
    /\ handler.kind = "start"
    /\ handler.options = <<3>>
    /\ Cardinality(Scans) = 3

====
